---- MODULE Spec2Model ----
(***************************************************************************)
(* A model of the Survey360 application (Django): surveys, invitations,    *)
(* responses, rankings and reports as database tables, one action per view *)
(* of survey/views.py, and the report aggregation of view_report.          *)
(*                                                                         *)
(* The database runs in autocommit mode (no transaction.atomic and no      *)
(* select_for_update anywhere in the source), so a view that fails after   *)
(* a write keeps that write, and two requests may interleave between the   *)
(* reads at the head of a view and its writes.  The three submission views *)
(* are therefore modelled in two steps: the step that reads and checks the *)
(* invitation or survey, and the step that validates the posted data and   *)
(* writes.  Every other view is one step.                                  *)
(***************************************************************************)
EXTENDS Integers, Sequences, FiniteSets, Bags, TLC

(***************************************************************************)
(* Bounds of the model.                                                    *)
(***************************************************************************)
MaxTime == 2
MaxSurveys == 1
MaxInvitations == 2
MaxResponses == 3
MaxReportResponses == 2

VARIABLES
    now,                   \* django.utils.timezone.now()
    surveys,               \* table Survey: sequence of rows, id = index
    invitations,           \* table SurveyInvitation, id = index = token
    responses,             \* table SurveyResponse, id = index
    strength_rankings,     \* table StrengthRanking, in creation order
    opportunity_rankings,  \* table OpportunityRanking, in creation order
    inflight,              \* bag of submissions that passed their checks
    reports,               \* table SurveyReport, id = index = report_token
    context                \* what view_report rendered last

vars == <<now, surveys, invitations, responses, strength_rankings,
          opportunity_rankings, inflight, reports, context>>

\* the part of the state that only the report views touch
report_state == <<reports, context>>

tables == <<surveys, invitations, responses, strength_rankings,
            opportunity_rankings>>

(***************************************************************************)
(* Python values.                                                          *)
(***************************************************************************)
\* A text is a sequence of one-character strings.
Whitespace == {" ", "\r", "\n", "\t"}

UpperCase == <<"A", "B", "C", "D">>
LowerCase == <<"a", "b", "c", "d">>

\* str.lower() on one character
LowerChar(c) ==
    IF \E k \in 1..Len(UpperCase) : UpperCase[k] = c
    THEN LowerCase[CHOOSE k \in 1..Len(UpperCase) : UpperCase[k] = c]
    ELSE c

\* str.lower()
Lower(s) == [k \in 1..Len(s) |-> LowerChar(s[k])]

RECURSIVE LStrip(_)
LStrip(s) ==
    IF s # <<>> /\ Head(s) \in Whitespace THEN LStrip(Tail(s)) ELSE s

RECURSIVE RStrip(_)
RStrip(s) ==
    IF s # <<>> /\ s[Len(s)] \in Whitespace
    THEN RStrip(SubSeq(s, 1, Len(s) - 1))
    ELSE s

\* str.strip()
Strip(s) == RStrip(LStrip(s))

\* c in s
Contains(s, c) == \E k \in 1..Len(s) : s[k] = c

\* sub in s, for a text sub
InText(sub, s) ==
    \E k \in 0..(Len(s) - Len(sub)) : SubSeq(s, k + 1, k + Len(sub)) = sub

\* s.split(sep): the pieces between the occurrences of the character sep
RECURSIVE SplitFrom(_, _, _)
SplitFrom(s, sep, piece) ==
    IF s = <<>> THEN <<piece>>
    ELSE IF Head(s) = sep THEN <<piece>> \o SplitFrom(Tail(s), sep, <<>>)
    ELSE SplitFrom(Tail(s), sep, Append(piece, Head(s)))

Split(s, sep) == SplitFrom(s, sep, <<>>)

Digits == <<"0", "1", "2", "3", "4", "5", "6", "7", "8", "9">>

IsDigit(c) == \E k \in 1..10 : Digits[k] = c

DigitValue(c) == (CHOOSE k \in 1..10 : Digits[k] = c) - 1

RECURSIVE DigitsValue(_, _)
DigitsValue(s, acc) ==
    IF s = <<>> THEN acc
    ELSE DigitsValue(Tail(s), 10 * acc + DigitValue(Head(s)))

\* int(text): surrounding whitespace and one sign are accepted, anything
\* else raises ValueError.
IntParses(s) ==
    LET t == Strip(s)
        d == IF t # <<>> /\ Head(t) \in {"+", "-"} THEN Tail(t) ELSE t
    IN  d # <<>> /\ \A k \in 1..Len(d) : IsDigit(d[k])

IntOf(s) ==
    LET t == Strip(s)
        neg == t # <<>> /\ Head(t) = "-"
        d == IF t # <<>> /\ Head(t) \in {"+", "-"} THEN Tail(t) ELSE t
    IN  IF neg THEN 0 - DigitsValue(d, 0) ELSE DigitsValue(d, 0)

\* str(i) for a natural number i
RECURSIVE Str(_)
Str(i) ==
    IF i < 10 THEN <<Digits[i + 1]>>
    ELSE Str(i \div 10) \o <<Digits[(i % 10) + 1]>>

\* None for a nullable integer column or foreign key
NoneId == 0
NoneTime == 0 - 1

(***************************************************************************)
(* survey/models.py                                                        *)
(***************************************************************************)
\* SurveyResponse.RELATIONSHIP_CHOICES (the stored values)
RELATIONSHIP_CHOICES ==
    <<"supervisor", "peer", "teacher", "student", "parent", "self">>

\* SurveyResponse.LIKERT_CHOICES (the stored values)
LIKERT_CHOICES ==
    <<"significantly_above", "above", "slightly_above", "meets",
      "slightly_below", "below", "significantly_below">>

\* q2_response .. q55_response
FirstQuestion == 2
LastQuestion == 55
Questions == FirstQuestion..LastQuestion

Range(f) == {f[k] : k \in DOMAIN f}

\* SurveyInvitation.is_expired, for a row of the table
is_expired(inv) == now > inv.expires_at

\* SurveyInvitation.is_valid
is_valid(inv) == ~inv.used /\ ~is_expired(inv)

\* Survey(...) as create_survey_view saves it: the defaults of the model
NewSurvey == [leader_completed_self |-> FALSE]

\* SurveyInvitation(survey, email, expires_at) with the model's defaults
NewInvitation(survey, email, expires_at) ==
    [survey |-> survey, email |-> email, expires_at |-> expires_at,
     used |-> FALSE]

\* Survey.objects.get(leader_token=token): the leader token of survey s is s
SurveyExists(token) == token \in 1..Len(surveys)

\* SurveyInvitation.objects.get(token=token): the token of invitation i is i
InvitationExists(token) == token \in 1..Len(invitations)

\* a token that matches no row
NoToken == 0

(***************************************************************************)
(* survey/utils.py                                                         *)
(***************************************************************************)
get_strength_choices ==
    <<"Ability to guide others towards a common goal",
      "Possesses excellent oral communication skills",
      "Possesses effective written communication skills",
      "Great listener",
      "Expresses ideas clearly",
      "Supports teacher professional development",
      "Supports teachers in implementing effective instructional strategies",
      "Ability to build positive relationships with others",
      "Supports collaboration among all school stakeholders",
      "Ability to analyze challenges and implement solutions",
      "Creates a positive school culture",
      "Promotes and encourages innovation",
      "Supports and encourages continuous improvement",
      "Makes timely decisions aligned with school mission and goals",
      "Decisions encompass the needs of all stakeholders",
      "Uses data to inform major decisions",
      "Effectively manages emotions",
      "Resilient in effectively navigating change",
      "Able to navigate challenges and obstacles",
      "Has a clear vision for the school",
      "Able to motivate others to work towards shared goals",
      "Maintains a high level of integrity",
      "Create a positive school environment",
      "Committed to learning and growing professionally",
      "Is up to date on the latest research and best practices">>

get_opportunity_choices ==
    <<"Lacks a clear vision for the school",
      "Struggles to verbally communicate ideas",
      "Struggles to communicate in written formats",
      "Leadership contributes to low morale",
      "Resistant to change",
      "Struggles to foster collaboration",
      "Leadership promotes a lack of trust among others",
      "Struggles to address issues effectively",
      "Micromanages others",
      "Inhibits autonomy and creativity",
      "Provide more sufficient PD opportunities for all staff",
      "Struggles to create a positive school culture",
      "Improve skills to effectively engage parents or community",
      "Needs to improve listening skills",
      "Difficulty expressing ideas",
      "Should delegate more effectively (distribution of tasks)",
      "Could improve their feedback processes",
      "Could improve their problem solving skills",
      "Seems to not follow through",
      "Could improve their appreciation for diverse perspectives",
      "Could recognize others more often">>

\* calculate_likert_score on a scale that starts at 0
calculate_likert_score_from_zero(value) ==
    CASE value = "significantly_above" -> 6
      [] value = "above" -> 5
      [] value = "slightly_above" -> 4
      [] value = "meets" -> 3
      [] value = "slightly_below" -> 2
      [] value = "below" -> 1
      [] value = "significantly_below" -> 0
      [] OTHER -> 3

\* calculate_likert_score with scores.get(value, 0)
calculate_likert_score_default_zero(value) ==
    CASE value = "significantly_above" -> 7
      [] value = "above" -> 6
      [] value = "slightly_above" -> 5
      [] value = "meets" -> 4
      [] value = "slightly_below" -> 3
      [] value = "below" -> 2
      [] value = "significantly_below" -> 1
      [] OTHER -> 0

\* calculate_likert_score: scores.get(value, 4)
calculate_likert_score(value) ==
    CASE value = "significantly_above" -> 7
      [] value = "above" -> 6
      [] value = "slightly_above" -> 5
      [] value = "meets" -> 4
      [] value = "slightly_below" -> 3
      [] value = "below" -> 2
      [] value = "significantly_below" -> 1
      [] OTHER -> 4

(***************************************************************************)
(* survey/forms.py                                                         *)
(***************************************************************************)
\* the loop of clean_emails without email.lower()
RECURSIVE clean_emails_loop_keep_case(_, _)
clean_emails_loop_keep_case(lines, emails) ==
    IF lines = <<>> THEN [ok |-> TRUE, emails |-> emails]
    ELSE LET email == Strip(Head(lines))
         IN  IF email = <<>>
             THEN clean_emails_loop_keep_case(Tail(lines), emails)
             ELSE IF ~Contains(email, "@")
                     \/ ~Contains(Split(email, "@")[2], ".")
             THEN [ok |-> FALSE, emails |-> <<>>]
             ELSE clean_emails_loop_keep_case(Tail(lines),
                      Append(emails, email))

\* the loop of clean_emails leaving a bad line out instead of raising
RECURSIVE clean_emails_loop_skip_bad(_, _)
clean_emails_loop_skip_bad(lines, emails) ==
    IF lines = <<>> THEN [ok |-> TRUE, emails |-> emails]
    ELSE LET email == Strip(Head(lines))
         IN  IF email = <<>> THEN clean_emails_loop_skip_bad(Tail(lines), emails)
             ELSE IF ~Contains(email, "@")
                     \/ ~Contains(Split(email, "@")[2], ".")
             THEN clean_emails_loop_skip_bad(Tail(lines), emails)
             ELSE clean_emails_loop_skip_bad(Tail(lines),
                      Append(emails, Lower(email)))

\* The loop of InvitationForm.clean_emails over the lines: the emails
\* collected so far, or the ValidationError of the first bad line.
RECURSIVE clean_emails_loop(_, _)
clean_emails_loop(lines, emails) ==
    IF lines = <<>> THEN [ok |-> TRUE, emails |-> emails]
    ELSE LET email == Strip(Head(lines))
         IN  IF email = <<>> THEN clean_emails_loop(Tail(lines), emails)
             ELSE IF ~Contains(email, "@")
                     \/ ~Contains(Split(email, "@")[2], ".")
             THEN [ok |-> FALSE, emails |-> <<>>]
             ELSE clean_emails_loop(Tail(lines), Append(emails, Lower(email)))

\* InvitationForm.clean_emails
clean_emails(emails_text) ==
    LET r == clean_emails_loop(Split(emails_text, "\n"), <<>>)
    IN  IF r.ok /\ r.emails = <<>> THEN [ok |-> FALSE, emails |-> <<>>] ELSE r

\* InvitationForm(request.POST): is_valid() and cleaned_data.  The CharField
\* strips the text and requires it to be non-empty before clean_emails runs.
InvitationForm(post) ==
    LET text == Strip(post.emails)
        r == IF text = <<>> THEN [ok |-> FALSE, emails |-> <<>>]
             ELSE clean_emails(text)
    IN  [is_valid |-> r.ok, emails |-> r.emails, expires_at |-> post.expires_at]

\* the keys of the choices of the strengths field: str(i) for each choice
strength_keys == {Str(i) : i \in 0..(Len(get_strength_choices) - 1)}
opportunity_keys == {Str(i) : i \in 0..(Len(get_opportunity_choices) - 1)}

\* clean_strengths with a lower limit of 5 selections only
clean_strengths_at_least(strengths) ==
    /\ strengths # <<>>
    /\ \A k \in 1..Len(strengths) : strengths[k] \in strength_keys
    /\ Len(strengths) >= 5

\* MultipleChoiceField(required=True) followed by clean_strengths
clean_strengths(strengths) ==
    /\ strengths # <<>>
    /\ \A k \in 1..Len(strengths) : strengths[k] \in strength_keys
    /\ Len(strengths) = 5

\* MultipleChoiceField(required=True) followed by clean_opportunities
clean_opportunities(opportunities) ==
    /\ opportunities # <<>>
    /\ \A k \in 1..Len(opportunities) : opportunities[k] \in opportunity_keys
    /\ Len(opportunities) = 5

\* the Likert fields of both model forms: required, one of LIKERT_CHOICES
likert_fields_valid(answers) ==
    \A q \in Questions : answers[q] \in Range(LIKERT_CHOICES)

\* the relationship choices SurveyResponseForm.__init__ sets
participant_choices == <<"supervisor", "peer", "teacher", "student", "parent">>

\* LeaderSelfAssessmentForm(request.POST).is_valid()
LeaderSelfAssessmentForm(post) ==
    /\ likert_fields_valid(post.answers)
    /\ clean_strengths(post.strengths)
    /\ clean_opportunities(post.opportunities)

\* SurveyResponseForm(request.POST).is_valid()
SurveyResponseForm(post) ==
    /\ post.relationship \in Range(participant_choices)
    /\ likert_fields_valid(post.answers)
    /\ clean_strengths(post.strengths)
    /\ clean_opportunities(post.opportunities)

(***************************************************************************)
(* survey/views.py: helpers shared by the submission views                 *)
(*                                                                         *)
(* Each view is given by two definitions: <view>_response, the HTTP        *)
(* response it returns as a function of the database and the request, and  *)
(* <view>, the action with its effect on the database.                     *)
(***************************************************************************)
\* request.POST.get(f'strength_rank_{id}', 5 - i) followed by int(rank):
\* the posted text when the key is present, the default otherwise.
posted_rank(rank_post, id, i) ==
    IF id \in DOMAIN rank_post
    THEN IF IntParses(rank_post[id])
         THEN [ok |-> TRUE, rank |-> IntOf(rank_post[id])]
         ELSE [ok |-> FALSE, rank |-> 0]
    ELSE [ok |-> TRUE, rank |-> 5 - i]

\* unique_together of StrengthRanking and OpportunityRanking; label is the
\* column strength, respectively opportunity
ranking_exists(rows, response, label) ==
    \E k \in 1..Len(rows) :
        rows[k].response = response /\ rows[k].label = label

\* The loop "for i, strength_id in enumerate(strengths)" of the two form
\* views, from index i on: the table after the rows created before the
\* first exception (ValueError of int(rank), IntegrityError of the unique
\* constraint), and whether the loop completed.
RECURSIVE form_rankings_loop(_, _, _, _, _, _)
form_rankings_loop(rows, response, ids, rank_post, choices, i) ==
    IF i >= Len(ids) THEN [ok |-> TRUE, rows |-> rows]
    ELSE LET id == ids[i + 1]
             r == posted_rank(rank_post, id, i)
             label == choices[IntOf(id) + 1]
         IN  IF ~r.ok \/ ranking_exists(rows, response, label)
             THEN [ok |-> FALSE, rows |-> rows]
             ELSE form_rankings_loop(
                      Append(rows, [response |-> response, label |-> label,
                                    rank |-> r.rank]),
                      response, ids, rank_post, choices, i + 1)

\* The two ranking loops of a valid form submission (lines 198-215 and
\* 330-347) for the response with id rid.
form_rankings(rid, post) ==
    LET s == form_rankings_loop(strength_rankings, rid, post.strengths,
                 post.strength_rank, get_strength_choices, 0)
        o == IF s.ok
             THEN form_rankings_loop(opportunity_rankings, rid,
                      post.opportunities, post.opportunity_rank,
                      get_opportunity_choices, 0)
             ELSE [ok |-> FALSE, rows |-> opportunity_rankings]
    IN  [ok |-> o.ok, strengths |-> s.rows, opportunities |-> o.rows]

\* a save that flips the flag instead of setting it
mark_used_toggle(table, token) ==
    [table EXCEPT ![token].used = ~@]

\* invitation.used = True; invitation.used_at = timezone.now();
\* invitation.save().  No view reads used_at, which the rows leave out.
mark_used(table, token) ==
    [table EXCEPT ![token].used = TRUE]

\* survey.leader_completed_self = True; survey.save()
mark_completed(table, token) ==
    [table EXCEPT ![token].leader_completed_self = TRUE]

\* nothing rendered yet
NoContext == [result |-> "none"]

\* a submission that passed the checks at the head of its view
Pending(view, token) == [view |-> view, token |-> token]

\* the requests served at the same time
Workers == {"w1", "w2"}

Accept(view, token) ==
    /\ BagCardinality(inflight) < Cardinality(Workers)
    /\ Len(responses) + BagCardinality(inflight) < MaxResponses
    /\ inflight' = inflight (+) SetToBag({Pending(view, token)})

Take(view, token) ==
    /\ BagIn(Pending(view, token), inflight)
    /\ inflight' = inflight (-) SetToBag({Pending(view, token)})

(***************************************************************************)
(* participant_survey_view                                                 *)
(***************************************************************************)
\* the view without the check of invitation.used
participant_survey_view_response_expiry_only(token, method) ==
    IF ~InvitationExists(token) THEN "invalid_link"
    ELSE IF is_expired(invitations[token]) THEN "invalid_link"
    ELSE IF method = "GET" THEN "form"
    ELSE "post"

\* the view without the check of invitation.is_expired
participant_survey_view_response_used_only(token, method) ==
    IF ~InvitationExists(token) THEN "invalid_link"
    ELSE IF invitations[token].used THEN "invalid_link"
    ELSE IF method = "GET" THEN "form"
    ELSE "post"

\* lines 297-317 and 357-369: look the invitation up and check it.  "post"
\* stands for going on to the POST branch.
participant_survey_view_response(token, method) ==
    IF ~InvitationExists(token) THEN "invalid_link"
    ELSE IF invitations[token].used \/ is_expired(invitations[token])
    THEN "invalid_link"
    ELSE IF method = "GET" THEN "form"
    ELSE "post"

participant_survey_view(token, method) ==
    /\ UNCHANGED <<report_state, now, tables>>
    /\ IF participant_survey_view_response(token, method) = "post"
       THEN Accept("participant", token)
       ELSE UNCHANGED inflight

\* lines 318-356: the response to a POST that passed the checks
participant_survey_post_response(token, post) ==
    IF ~SurveyResponseForm(post) THEN "form_errors"
    ELSE IF form_rankings(Len(responses) + 1, post).ok THEN "redirect thank_you"
    ELSE "error500"

\* lines 318-356: validate the form and store the submission.  An exception
\* in a ranking loop ends the request and keeps the rows written before it.
participant_survey_post(token, post) ==
    LET r == form_rankings(Len(responses) + 1, post)
    IN  /\ Take("participant", token)
        /\ UNCHANGED <<report_state, now, surveys>>
        /\ IF ~SurveyResponseForm(post)
           THEN UNCHANGED <<invitations, responses, strength_rankings,
                            opportunity_rankings>>
           ELSE /\ responses' = Append(responses,
                       [survey |-> invitations[token].survey,
                        invitation |-> token,
                        relationship |-> post.relationship,
                        is_leader_self_assessment |-> FALSE,
                        answers |-> post.answers])
                /\ strength_rankings' = r.strengths
                /\ opportunity_rankings' = r.opportunities
                /\ invitations' = IF r.ok THEN mark_used(invitations, token)
                                  ELSE invitations

(***************************************************************************)
(* leader_self_assessment_view                                             *)
(***************************************************************************)
\* lines 178-184 and 223-234
leader_self_assessment_view_response(token, method) ==
    IF ~SurveyExists(token) THEN "404"
    ELSE IF surveys[token].leader_completed_self
    THEN "redirect leader_dashboard"
    ELSE IF method = "GET" THEN "form"
    ELSE "post"

leader_self_assessment_view(token, method) ==
    /\ UNCHANGED <<report_state, now, tables>>
    /\ IF leader_self_assessment_view_response(token, method) = "post"
       THEN Accept("leader", token)
       ELSE UNCHANGED inflight

\* lines 185-222: the response to a POST that passed the checks
leader_self_assessment_post_response(token, post) ==
    IF ~LeaderSelfAssessmentForm(post) THEN "form_errors"
    ELSE IF form_rankings(Len(responses) + 1, post).ok
    THEN "redirect leader_dashboard"
    ELSE "error500"

\* lines 185-222
leader_self_assessment_post(token, post) ==
    LET r == form_rankings(Len(responses) + 1, post)
    IN  /\ Take("leader", token)
        /\ UNCHANGED <<report_state, now, invitations>>
        /\ IF ~LeaderSelfAssessmentForm(post)
           THEN UNCHANGED <<surveys, responses, strength_rankings,
                            opportunity_rankings>>
           ELSE /\ responses' = Append(responses,
                       [survey |-> token,
                        invitation |-> NoneId,
                        relationship |-> "self",
                        is_leader_self_assessment |-> TRUE,
                        answers |-> post.answers])
                /\ strength_rankings' = r.strengths
                /\ opportunity_rankings' = r.opportunities
                /\ surveys' = IF r.ok THEN mark_completed(surveys, token)
                              ELSE surveys

(***************************************************************************)
(* submit_survey_view                                                      *)
(***************************************************************************)
\* The token of a URL: its text, and the invitation and the survey whose
\* token it is (NoToken when it is the token of none).
UrlToken(text, invitation_token, leader_token) ==
    [text |-> text, invitation_token |-> invitation_token,
     leader_token |-> leader_token]

\* request.path for the pattern 'survey/<str:token>/submit/', which the
\* project includes without a prefix
submit_path(text) ==
    <<"/", "s", "u", "r", "v", "e", "y", "/">> \o text
        \o <<"/", "s", "u", "b", "m", "i", "t", "/">>

\* lines 377-382: the view called, and its response
submit_survey_view_response(url, method) ==
    IF InText(<<"i", "n", "v", "i", "t", "a", "t", "i", "o", "n">>,
              submit_path(url.text))
    THEN [view |-> "participant_survey_view",
          result |-> participant_survey_view_response(url.invitation_token,
                         method)]
    ELSE [view |-> "leader_self_assessment_view",
          result |-> leader_self_assessment_view_response(url.leader_token,
                         method)]

\* lines 377-382
submit_survey_view(url, method) ==
    IF submit_survey_view_response(url, method).view
           = "participant_survey_view"
    THEN participant_survey_view(url.invitation_token, method)
    ELSE leader_self_assessment_view(url.leader_token, method)

(***************************************************************************)
(* api_submit_survey                                                       *)
(***************************************************************************)
\* the checks of lines 562-565 in the other order
api_submit_survey_response_expiry_first(head) ==
    IF ~head.json_ok THEN "500"
    ELSE IF head.has_invitation_token
    THEN IF ~InvitationExists(head.invitation_token) THEN "500"
         ELSE IF is_expired(invitations[head.invitation_token])
         THEN "400 Survey link expired"
         ELSE IF invitations[head.invitation_token].used
         THEN "400 Survey already completed"
         ELSE "create"
    ELSE IF ~SurveyExists(head.token) THEN "500"
         ELSE IF surveys[head.token].leader_completed_self
         THEN "400 Self-assessment already completed"
         ELSE "create"

\* lines 555-572: parse the body, find the invitation or the survey, check.
\* Every exception, Http404 of get_object_or_404 included, is caught at
\* line 612 and answered with status 500.  "create" stands for going on to
\* line 574.
api_submit_survey_response(head) ==
    IF ~head.json_ok THEN "500"
    ELSE IF head.has_invitation_token
    THEN IF ~InvitationExists(head.invitation_token) THEN "500"
         ELSE IF invitations[head.invitation_token].used
         THEN "400 Survey already completed"
         ELSE IF is_expired(invitations[head.invitation_token])
         THEN "400 Survey link expired"
         ELSE "create"
    ELSE IF ~SurveyExists(head.token) THEN "500"
         ELSE IF surveys[head.token].leader_completed_self
         THEN "400 Self-assessment already completed"
         ELSE "create"

api_submit_survey(head) ==
    /\ UNCHANGED <<report_state, now, tables>>
    /\ IF api_submit_survey_response(head) = "create"
       THEN IF head.has_invitation_token
            THEN Accept("api_participant", head.invitation_token)
            ELSE Accept("api_leader", head.token)
       ELSE UNCHANGED inflight

\* The loops of lines 587-599 over data['strengths'] and
\* data['opportunities']: a missing 'text' or 'rank' raises KeyError, a rank
\* that IntegerField cannot convert raises ValueError, a repeated label
\* raises IntegrityError.
RECURSIVE api_rankings_loop(_, _, _)
api_rankings_loop(rows, response, entries) ==
    IF entries = <<>> THEN [ok |-> TRUE, rows |-> rows]
    ELSE LET e == Head(entries)
         IN  IF \/ ~e.has_text
                \/ ~e.has_rank
                \/ (~e.rank_is_number /\ ~IntParses(e.rank_text))
                \/ ranking_exists(rows, response, e.text)
             THEN [ok |-> FALSE, rows |-> rows]
             ELSE api_rankings_loop(
                      Append(rows,
                          [response |-> response, label |-> e.text,
                           rank |-> IF e.rank_is_number THEN e.rank_number
                                    ELSE IntOf(e.rank_text)]),
                      response, Tail(entries))

api_rankings(rid, data) ==
    LET s == api_rankings_loop(strength_rankings, rid, data.strengths)
        o == IF s.ok
             THEN api_rankings_loop(opportunity_rankings, rid,
                      data.opportunities)
             ELSE [ok |-> FALSE, rows |-> opportunity_rankings]
    IN  [ok |-> o.ok, strengths |-> s.rows, opportunities |-> o.rows]

\* SurveyResponse.objects.create of line 575 succeeds: a missing
\* relationship or answer is None in a NOT NULL column, and the INSERT fails
api_insert_ok(data) == data.has_relationship /\ data.missing_answers = {}

\* lines 574-613: the response to a request that passed the checks
api_submit_survey_create_response(data) ==
    IF ~api_insert_ok(data) THEN "500"
    ELSE IF api_rankings(Len(responses) + 1, data).ok THEN "200"
    ELSE "500"

\* the row without is_leader_self_assessment, which is False by default
api_response_row_default_flag(view, token, data) ==
    [survey |-> IF view = "api_participant"
                THEN invitations[token].survey ELSE token,
     invitation |-> IF view = "api_participant" THEN token ELSE NoneId,
     relationship |-> data.relationship,
     is_leader_self_assessment |-> FALSE,
     answers |-> data.answers]

\* lines 575-584: the row of SurveyResponse.objects.create; invitation is
\* None on the leader's branch, and is_leader_self_assessment is
\* (invitation is None)
api_response_row(view, token, data) ==
    [survey |-> IF view = "api_participant"
                THEN invitations[token].survey ELSE token,
     invitation |-> IF view = "api_participant" THEN token ELSE NoneId,
     relationship |-> data.relationship,
     is_leader_self_assessment |-> (view = "api_leader"),
     answers |-> data.answers]

\* lines 574-613: create the response and its rankings, update the status
api_submit_survey_create(view, token, data) ==
    LET r == api_rankings(Len(responses) + 1, data)
    IN  /\ Take(view, token)
        /\ UNCHANGED <<report_state, now>>
        /\ IF ~api_insert_ok(data)
           THEN UNCHANGED tables
           ELSE /\ responses' = Append(responses,
                       api_response_row(view, token, data))
                /\ strength_rankings' = r.strengths
                /\ opportunity_rankings' = r.opportunities
                /\ invitations' =
                       IF r.ok /\ view = "api_participant"
                       THEN mark_used(invitations, token) ELSE invitations
                /\ surveys' =
                       IF r.ok /\ view = "api_leader"
                       THEN mark_completed(surveys, token) ELSE surveys

(***************************************************************************)
(* leader_dashboard_view                                                   *)
(***************************************************************************)
\* SurveyInvitation.objects.filter(survey=survey, email=email).exists()
invitation_exists(table, survey, email) ==
    \E k \in 1..Len(table) :
        table[k].survey = survey /\ table[k].email = email

\* SurveyInvitation.Meta.unique_together = ['survey', 'email']: the
\* database refuses a second row with the same pair
unique_together_broken(table, survey, email) ==
    \E j \in 1..Len(table) :
        table[j].survey = survey /\ table[j].email = email

\* the loop without the try of lines 262-271 and with a send function that
\* raises: the first email the transport refuses ends the request
RECURSIVE invitations_loop_stop_on_failure(_, _, _, _, _, _, _, _)
invitations_loop_stop_on_failure(table, survey, emails, expires_at, delivered, k, created_count, failed_emails) ==
    IF k > Len(emails)
    THEN [ok |-> TRUE, table |-> table, created_count |-> created_count,
          failed_emails |-> failed_emails]
    ELSE IF invitation_exists(table, survey, emails[k])
    THEN invitations_loop_stop_on_failure(table, survey, emails, expires_at,
             delivered, k + 1, created_count, failed_emails)
    ELSE IF k \notin delivered
    THEN [ok |-> TRUE,
          table |-> Append(table,
                        NewInvitation(survey, emails[k], expires_at)),
          created_count |-> created_count,
          failed_emails |-> Append(failed_emails, emails[k])]
    ELSE invitations_loop_stop_on_failure(
             Append(table, NewInvitation(survey, emails[k], expires_at)),
             survey, emails, expires_at, delivered, k + 1,
             created_count + 1, failed_emails)

\* The loop of lines 253-273 from address k on.  delivered is the set of
\* positions of the list whose email the transport accepts;
\* send_survey_invitation returns False, or raises, for the others.  The
\* INSERT of line 256 raises IntegrityError when the database refuses it.
RECURSIVE invitations_loop(_, _, _, _, _, _, _, _)
invitations_loop(table, survey, emails, expires_at, delivered, k, created_count, failed_emails) ==
    IF k > Len(emails)
    THEN [ok |-> TRUE, table |-> table, created_count |-> created_count,
          failed_emails |-> failed_emails]
    ELSE IF invitation_exists(table, survey, emails[k])
    THEN invitations_loop(table, survey, emails, expires_at, delivered,
             k + 1, created_count, failed_emails)
    ELSE IF unique_together_broken(table, survey, emails[k])
    THEN [ok |-> FALSE, table |-> table, created_count |-> created_count,
          failed_emails |-> failed_emails]
    ELSE invitations_loop(
             Append(table, NewInvitation(survey, emails[k], expires_at)),
             survey, emails, expires_at, delivered, k + 1,
             IF k \in delivered THEN created_count + 1 ELSE created_count,
             IF k \in delivered THEN failed_emails
             ELSE Append(failed_emails, emails[k]))

\* the view without the check of lines 241-242
leader_dashboard_view_response_no_check(token, method, post, delivered) ==
    LET form == InvitationForm(post)
        r == invitations_loop(invitations, token, form.emails,
                 form.expires_at, delivered, 1, 0, <<>>)
        Page(result) == [result |-> result, created_count |-> 0,
                         failed_emails |-> <<>>]
    IN  IF ~SurveyExists(token) THEN Page("404")
        ELSE IF method = "GET" THEN Page("page")
        ELSE IF ~form.is_valid THEN Page("form_errors")
        ELSE IF ~r.ok THEN Page("error500")
        ELSE [result |-> "redirect leader_dashboard",
              created_count |-> r.created_count,
              failed_emails |-> r.failed_emails]

\* lines 239-292: the response, with the counts of the two messages
leader_dashboard_view_response(token, method, post, delivered) ==
    LET form == InvitationForm(post)
        r == invitations_loop(invitations, token, form.emails,
                 form.expires_at, delivered, 1, 0, <<>>)
        Page(result) == [result |-> result, created_count |-> 0,
                         failed_emails |-> <<>>]
    IN  IF ~SurveyExists(token) THEN Page("404")
        ELSE IF ~surveys[token].leader_completed_self
        THEN Page("redirect leader_self_assessment")
        ELSE IF method = "GET" THEN Page("page")
        ELSE IF ~form.is_valid THEN Page("form_errors")
        ELSE IF ~r.ok THEN Page("error500")
        ELSE [result |-> "redirect leader_dashboard",
              created_count |-> r.created_count,
              failed_emails |-> r.failed_emails]

\* lines 239-292: the rows created, which are the same whatever the
\* transport delivers
leader_dashboard_view(token, method, post) ==
    LET form == InvitationForm(post)
        r == invitations_loop(invitations, token, form.emails,
                 form.expires_at, {}, 1, 0, <<>>)
        go == leader_dashboard_view_response(token, method, post, {}).result
                  \in {"redirect leader_dashboard", "error500"}
    IN  /\ UNCHANGED <<report_state, now, surveys, responses,
                       strength_rankings, opportunity_rankings, inflight>>
        /\ IF go
           THEN /\ Len(r.table) <= MaxInvitations
                /\ invitations' = r.table
           ELSE UNCHANGED invitations

(***************************************************************************)
(* create_survey_view                                                      *)
(***************************************************************************)
\* request.user.is_staff
is_staff(user) == user \in {"staff", "admin"}

\* what the mail transport does with a message: it accepts it, or
\* send(fail_silently=False) raises
MailTransports == {"accepted", "refused"}

\* a send function that lets the exception of the transport through
send_leader_self_assessment_email_raising(transport) ==
    IF transport = "accepted" THEN "True" ELSE "raise"

\* utils.py, lines 87-100: return True after email.send(), return False
\* from the except clause
send_leader_self_assessment_email(transport) ==
    IF transport = "accepted" THEN "True" ELSE "False"

\* lines 102-124: the response with the message shown
create_survey_view_response(user, method, form_ok, transport) ==
    IF user = "anonymous" THEN "redirect login"
    ELSE IF ~is_staff(user) THEN "403"
    ELSE IF method = "GET" \/ ~form_ok THEN "form"
    ELSE LET sent == send_leader_self_assessment_email(transport)
         IN  IF sent = "raise" THEN "error500"
             ELSE IF sent = "True" THEN "redirect survey_detail, success"
             ELSE "redirect survey_detail, warning"

\* lines 102-124: survey.save() of line 112 comes before the email
create_survey_view(user, method, form_ok, transport) ==
    /\ UNCHANGED <<report_state, now, invitations, responses,
                   strength_rankings, opportunity_rankings, inflight>>
    /\ IF is_staff(user) /\ method = "POST" /\ form_ok
       THEN /\ Len(surveys) < MaxSurveys
            /\ surveys' = Append(surveys, NewSurvey)
       ELSE UNCHANGED surveys

(***************************************************************************)
(* view_report                                                             *)
(***************************************************************************)
\* sum(scores), the list added up by halves
RECURSIVE Sum(_)
Sum(scores) ==
    IF scores = <<>> THEN 0
    ELSE IF Len(scores) = 1 THEN scores[1]
    ELSE LET half == Len(scores) \div 2
         IN  Sum(SubSeq(scores, 1, half))
             + Sum(SubSeq(scores, half + 1, Len(scores)))

\* round(total / count, 2), in hundredths: the nearest hundredth of the
\* quotient, the even one of the two at a tie.  With the response counts of
\* this model a tie is a multiple of 1/8, which the float quotient holds
\* exactly.
Round2(total, count) ==
    LET q == (total * 100) \div count
        r == (total * 100) % count
    IN  IF 2 * r < count THEN q
        ELSE IF 2 * r > count THEN q + 1
        ELSE IF q % 2 = 0 THEN q ELSE q + 1

\* None of avg_by_relationship
NoneAverage == 0 - 1

\* the responses of every survey, the newest first
RECURSIVE all_responses(_, _)
all_responses(survey, k) ==
    IF k = 0 THEN <<>> ELSE <<k>> \o all_responses(survey, k - 1)

\* survey.responses.all(), Meta.ordering = ['-submitted_at']: the ids of
\* the survey's responses among the first k rows, the newest first
RECURSIVE survey_responses(_, _)
survey_responses(survey, k) ==
    IF k = 0 THEN <<>>
    ELSE IF responses[k].survey = survey
    THEN <<k>> \o survey_responses(survey, k - 1)
    ELSE survey_responses(survey, k - 1)

\* the keys of scores_by_relationship, lines 424-431
report_relationships ==
    <<"self", "supervisor", "peer", "teacher", "student", "parent">>

\* line 440 without the test of is_leader_self_assessment
report_relationship_by_field(response) == response.relationship

\* line 440
report_relationship(response) ==
    IF response.is_leader_self_assessment THEN "self"
    ELSE response.relationship

\* lines 433-437: the scores of question q_num over the responses ids
RECURSIVE question_scores(_, _)
question_scores(ids, q_num) ==
    IF ids = <<>> THEN <<>>
    ELSE LET value == responses[Head(ids)].answers[q_num]
         IN  (IF value # "" THEN <<calculate_likert_score(value)>> ELSE <<>>)
             \o question_scores(Tail(ids), q_num)

\* lines 440-442: the scores of question q_num from the relationship rel
relationship_scores(ids, q_num, rel) ==
    question_scores(
        SelectSeq(ids, LAMBDA id : report_relationship(responses[id]) = rel),
        q_num)

\* lines 421-456
question_stats(ids) ==
    [q_num \in {q \in Questions : question_scores(ids, q) # <<>>} |->
        LET scores == question_scores(ids, q_num)
        IN  [average |-> Round2(Sum(scores), Len(scores)),
             scores |-> scores,
             response_count |-> Len(scores),
             by_relationship |->
                 [rel \in Range(report_relationships) |->
                     LET rel_scores == relationship_scores(ids, q_num, rel)
                     IN  IF rel_scores # <<>>
                         THEN Round2(Sum(rel_scores), Len(rel_scores))
                         ELSE NoneAverage]]]

\* insert a row into rows kept in descending order of rank, after the rows
\* of the same rank
RECURSIVE insert_by_rank(_, _)
insert_by_rank(rows, row) ==
    IF rows = <<>> THEN <<row>>
    ELSE IF Head(rows).rank >= row.rank
    THEN <<Head(rows)>> \o insert_by_rank(Tail(rows), row)
    ELSE <<row>> \o rows

RECURSIVE order_by_rank(_, _)
order_by_rank(rows, sorted) ==
    IF rows = <<>> THEN sorted
    ELSE order_by_rank(Tail(rows), insert_by_rank(sorted, Head(rows)))

\* response.strength_rankings.all(), Meta.ordering = ['-rank']
response_rankings(rows, response) ==
    order_by_rank(SelectSeq(rows, LAMBDA r : r.response = response), <<>>)

\* lines 464-466: all_strengths[strength].append(rank); the dictionary keeps
\* its keys in the order of their first insertion
add_rank(all, row) ==
    IF \E k \in 1..Len(all) : all[k].label = row.label
    THEN [k \in 1..Len(all) |->
             IF all[k].label = row.label
             THEN [all[k] EXCEPT !.ranks = Append(@, row.rank)]
             ELSE all[k]]
    ELSE Append(all, [label |-> row.label, ranks |-> <<row.rank>>])

RECURSIVE add_ranks(_, _)
add_ranks(all, rows) ==
    IF rows = <<>> THEN all
    ELSE add_ranks(add_rank(all, Head(rows)), Tail(rows))

\* lines 462-471
RECURSIVE all_rankings(_, _, _)
all_rankings(rows, ids, all) ==
    IF ids = <<>> THEN all
    ELSE all_rankings(rows, Tail(ids),
             add_ranks(all, response_rankings(rows, Head(ids))))

\* x[1] of two entries compared: avg_rank = sum(ranks) / len(ranks)
avg_rank_less(a, b) == a.total * b.count < b.total * a.count

\* a sort that puts an entry before the entries with an equal key
RECURSIVE insert_by_avg_rank_before_equal(_, _)
insert_by_avg_rank_before_equal(entries, e) ==
    IF entries = <<>> THEN <<e>>
    ELSE IF ~avg_rank_less(e, Head(entries)) THEN <<e>> \o entries
    ELSE <<Head(entries)>> \o insert_by_avg_rank_before_equal(Tail(entries), e)

\* list.sort(key=lambda x: x[1], reverse=True), which keeps the order of
\* entries with equal keys
RECURSIVE insert_by_avg_rank(_, _)
insert_by_avg_rank(entries, e) ==
    IF entries = <<>> THEN <<e>>
    ELSE IF avg_rank_less(Head(entries), e) THEN <<e>> \o entries
    ELSE <<Head(entries)>> \o insert_by_avg_rank(Tail(entries), e)

RECURSIVE sort_by_avg_rank(_, _)
sort_by_avg_rank(entries, sorted) ==
    IF entries = <<>> THEN sorted
    ELSE sort_by_avg_rank(Tail(entries),
             insert_by_avg_rank(sorted, Head(entries)))

\* lines 474-484 and the slice [:10] of lines 515-516; an entry
\* (label, avg_rank, len(ranks)) keeps avg_rank as total / count
top_rankings(rows, ids) ==
    LET all == all_rankings(rows, ids, <<>>)
        entries == [k \in 1..Len(all) |->
                       [label |-> all[k].label, total |-> Sum(all[k].ranks),
                        count |-> Len(all[k].ranks)]]
        sorted == sort_by_avg_rank(entries, <<>>)
    IN  SubSeq(sorted, 1, IF Len(sorted) < 10 THEN Len(sorted) ELSE 10)

\* lines 503-506: the scores of question_stats.values() in one list, for
\* the questions from..to in their order
RECURSIVE all_scores(_, _, _)
all_scores(ids, from, to) ==
    IF from > to THEN <<>>
    ELSE IF from = to THEN question_scores(ids, from)
    ELSE LET half == (from + to) \div 2
         IN  all_scores(ids, from, half) \o all_scores(ids, half + 1, to)

\* the mean of the averages of the questions in place of the mean of the
\* scores
overall_average_of_averages(ids) ==
    LET stats == question_stats(ids)
        averages == [i \in 1..(LastQuestion - FirstQuestion + 1) |->
                        IF (i + FirstQuestion - 1) \in DOMAIN stats
                        THEN stats[i + FirstQuestion - 1].average ELSE 0]
        count == Cardinality(DOMAIN stats)
    IN  IF count = 0 THEN 0
        ELSE (2 * Sum(averages) + count) \div (2 * count)

\* lines 503-506: round(sum(all_scores) / len(all_scores), 2), or 0
overall_average(ids) ==
    LET scores == all_scores(ids, FirstQuestion, LastQuestion)
    IN  IF scores # <<>> THEN Round2(Sum(scores), Len(scores)) ELSE 0

\* responses.filter(relationship=...).count(), lines 496-500
relationship_count(ids, relationship) ==
    Len(SelectSeq(ids, LAMBDA id : responses[id].relationship = relationship))

\* the template context of lines 508-525
report_context(survey) ==
    LET ids == survey_responses(survey, Len(responses))
    IN  [result |-> "200",
         survey |-> survey,
         response_count |-> Len(ids),
         participant_count |->
             Len(SelectSeq(ids,
                 LAMBDA id : ~responses[id].is_leader_self_assessment)),
         overall_average |-> overall_average(ids),
         question_stats |-> question_stats(ids),
         top_strengths |-> top_rankings(strength_rankings, ids),
         top_opportunities |-> top_rankings(opportunity_rankings, ids),
         supervisors_count |-> relationship_count(ids, "supervisor"),
         peers_count |-> relationship_count(ids, "peer"),
         staff_count |-> relationship_count(ids, "teacher"),
         students_count |-> relationship_count(ids, "student"),
         community_count |-> relationship_count(ids, "parent")]

\* get_object_or_404(SurveyReport, report_token=report_token)
ReportExists(report_token) == report_token \in 1..Len(reports)

\* lines 409-527
view_report(report_token) ==
    /\ UNCHANGED <<now, tables, inflight, reports>>
    /\ context' = IF ReportExists(report_token)
                  THEN report_context(reports[report_token].survey)
                  ELSE [result |-> "404"]

(***************************************************************************)
(* generate_report_view, api_generate_report, send_report_view             *)
(***************************************************************************)
\* who sends a request to the admin views
Users == {"anonymous", "user", "staff", "admin"}

\* get_object_or_404(Survey, id=survey_id): the id of a survey is its index
SurveyIdExists(survey_id) == survey_id \in 1..Len(surveys)

\* SurveyReport(survey, generated_by) as get_or_create saves it, with the
\* defaults of the model; generate_token() hands out the token
NewReport(survey, report_token, user, at) ==
    [survey |-> survey, report_token |-> report_token,
     generated_at |-> at, generated_by |-> user,
     sent_to_leader |-> FALSE, sent_at |-> NoneTime]

\* survey.report exists
has_report(table, survey) ==
    \E k \in 1..Len(table) : table[k].survey = survey

\* survey.report: the row of the one-to-one relation
report_of(table, survey) ==
    CHOOSE k \in 1..Len(table) : table[k].survey = survey

\* a view that creates a report at every call
get_or_create_report_always_create(table, survey, user) ==
    Append(table, NewReport(survey, Len(table) + 1, user, now))

\* lines 395-403 and 625-633: SurveyReport.objects.get_or_create, and for
\* a report that existed the new generated_at and generated_by
get_or_create_report(table, survey, user) ==
    IF has_report(table, survey)
    THEN [table EXCEPT ![report_of(table, survey)].generated_at = now,
                       ![report_of(table, survey)].generated_by = user]
    ELSE Append(table, NewReport(survey, Len(table) + 1, user, now))

\* lines 386-406
generate_report_view_response(user, survey_id) ==
    IF user = "anonymous" THEN "redirect login"
    ELSE IF ~is_staff(user) THEN "403"
    ELSE IF ~SurveyIdExists(survey_id) THEN "404"
    ELSE "redirect view_report"

generate_report_view(user, survey_id) ==
    /\ UNCHANGED <<now, tables, inflight, context>>
    /\ reports' =
           IF generate_report_view_response(user, survey_id)
                  = "redirect view_report"
           THEN get_or_create_report(reports, survey_id, user)
           ELSE reports

\* lines 616-643
api_generate_report_response(user, method, survey_id) ==
    IF user = "anonymous" THEN "redirect login"
    ELSE IF method # "POST" THEN "405"
    ELSE IF ~is_staff(user) THEN "403 Unauthorized"
    ELSE IF ~SurveyIdExists(survey_id) THEN "404"
    ELSE "200"

api_generate_report(user, method, survey_id) ==
    /\ UNCHANGED <<now, tables, inflight, context>>
    /\ reports' =
           IF api_generate_report_response(user, method, survey_id) = "200"
           THEN get_or_create_report(reports, survey_id, user)
           ELSE reports

\* SurveyReport.mark_as_sent
mark_as_sent(table, k) ==
    [table EXCEPT ![k].sent_to_leader = TRUE, ![k].sent_at = now]

\* send_report_to_leader without the try of utils.py, lines 127-140, and
\* with mark_as_sent before send_mail
send_report_view_response_mark_first(user, survey_id, transport) ==
    IF user = "anonymous" THEN "redirect login"
    ELSE IF ~is_staff(user) THEN "403"
    ELSE IF ~SurveyIdExists(survey_id) THEN "404"
    ELSE IF ~has_report(reports, survey_id)
    THEN "redirect survey_detail, Report not generated yet."
    ELSE "redirect survey_detail, Report sent"

\* lines 530-547, with send_report_to_leader of utils.py, lines 103-140:
\* the report is marked after the transport accepted the email
send_report_view_response(user, survey_id, transport) ==
    IF user = "anonymous" THEN "redirect login"
    ELSE IF ~is_staff(user) THEN "403"
    ELSE IF ~SurveyIdExists(survey_id) THEN "404"
    ELSE IF ~has_report(reports, survey_id)
    THEN "redirect survey_detail, Report not generated yet."
    ELSE IF transport = "accepted"
    THEN "redirect survey_detail, Report sent"
    ELSE "redirect survey_detail, Failed to send report email."

send_report_view(user, survey_id, transport) ==
    /\ UNCHANGED <<now, tables, inflight, context>>
    /\ reports' =
           IF send_report_view_response(user, survey_id, transport)
                  = "redirect survey_detail, Report sent"
           THEN mark_as_sent(reports, report_of(reports, survey_id))
           ELSE reports

(***************************************************************************)
(* survey_detail_view                                                      *)
(***************************************************************************)
\* survey.invitations.all(): the tokens of the survey's invitations
survey_invitations(survey_id) ==
    {k \in 1..Len(invitations) : invitations[k].survey = survey_id}

\* lines 139-147: the filters used=True, (used=False, expires_at__gt=now)
\* and (used=False, expires_at__lte=now); the two calls of timezone.now()
\* are taken at the same instant
survey_detail_stats(survey_id) ==
    [total_invitations |-> Cardinality(survey_invitations(survey_id)),
     completed_invitations |->
         Cardinality({k \in survey_invitations(survey_id) :
             invitations[k].used}),
     pending_invitations |->
         Cardinality({k \in survey_invitations(survey_id) :
             ~invitations[k].used /\ invitations[k].expires_at > now}),
     expired_invitations |->
         Cardinality({k \in survey_invitations(survey_id) :
             ~invitations[k].used /\ invitations[k].expires_at <= now}),
     total_responses |->
         Cardinality({k \in 1..Len(responses) :
             responses[k].survey = survey_id}),
     self_assessment_complete |-> surveys[survey_id].leader_completed_self]

\* lines 127-164: login_required, the staff check, get_object_or_404 and
\* the page with its stats
survey_detail_view_response(user, survey_id) ==
    IF user = "anonymous" THEN [result |-> "redirect login"]
    ELSE IF ~is_staff(user) THEN [result |-> "403"]
    ELSE IF ~SurveyIdExists(survey_id) THEN [result |-> "404"]
    ELSE [result |-> "page", stats |-> survey_detail_stats(survey_id)]

\* the view reads and writes nothing
survey_detail_view(user, survey_id) ==
    /\ survey_detail_view_response(user, survey_id).result
           \in {"redirect login", "403", "404", "page"}
    /\ UNCHANGED vars

(***************************************************************************)
(* the clock                                                               *)
(***************************************************************************)
Tick ==
    /\ now < MaxTime
    /\ now' = now + 1
    /\ UNCHANGED <<report_state, tables, inflight>>

(***************************************************************************)
(* The requests the model sends.                                           *)
(***************************************************************************)
Methods == {"GET", "POST"}

Request(user, method, form_ok, transport) ==
    [user |-> user, method |-> method, form_ok |-> form_ok,
     transport |-> transport]

\* requests to create_survey_view: who asks, and for a staff POST whether
\* the form validates and what the transport does with the email
CreateSurveyRequests ==
    { Request("anonymous", "GET", FALSE, "accepted"),
      Request("user", "POST", TRUE, "accepted"),
      Request("staff", "GET", FALSE, "accepted"),
      Request("staff", "POST", FALSE, "accepted"),
      Request("staff", "POST", TRUE, "refused"),
      Request("staff", "POST", TRUE, "accepted") }

\* the expiry dates a leader enters
ExpiresAtValues == {MaxTime - 1}

\* the texts posted in the emails field
EmailTexts ==
    { <<"a", "@", "b", ".", "c">>,
      <<"A", "@", "b", ".", "c">>,
      <<" ", "a", "@", "b", ".", "c", "\r", "\n", "A", "@", "B", ".", "c">>,
      <<"a", "@", "b", ".", "c", "\n", "\n", "d", "@", "b", ".", "c">>,
      <<"a", "@", "b", "c">>,
      <<"a", "@", "b", "@", "c", ".", "d">>,
      <<"a", ".", "b">>,
      <<" ", "\n">> }

InvitationPosts ==
    [emails : EmailTexts, expires_at : ExpiresAtValues]

\* requests to leader_dashboard_view: a GET, or a POST of the form
DashboardRequests ==
    {[method |-> "GET", post |-> [emails |-> <<>>, expires_at |-> NoneTime]]}
    \cup {[method |-> "POST", post |-> p] : p \in InvitationPosts}

\* the positions of the cleaned list whose email the transport delivers
Deliveries(post) == SUBSET (1..Len(InvitationForm(post).emails))

AllMeets == [q \in Questions |-> "meets"]

\* selections of the checkboxes, as the keys posted
Keys(from, to) == [k \in 1..(to - from + 1) |-> Str(from + k - 1)]

\* posted ranks: none (the defaults 5 - i apply), the same rank for every
\* key, and a text that is no integer for one key
NoRanks == <<>>
SameRanks == [id \in {Str(i) : i \in 0..5} |-> <<"5">>]
BadRank == [id \in {Str(1)} |-> <<"a", "b", "c">>]

BaseForm ==
    [relationship |-> "peer", answers |-> AllMeets,
     strengths |-> Keys(0, 4), opportunities |-> Keys(0, 4),
     strength_rank |-> NoRanks, opportunity_rank |-> NoRanks]

\* posts to the two form views
FormPosts ==
    { BaseForm,
      [BaseForm EXCEPT !.answers = [AllMeets EXCEPT ![LastQuestion] = "agree"]],
      [BaseForm EXCEPT !.strengths = Keys(0, 3)],
      [BaseForm EXCEPT !.strengths = Keys(0, 5)],
      [BaseForm EXCEPT !.opportunities = Keys(0, 3)],
      [BaseForm EXCEPT !.opportunities = Keys(0, 5)],
      [BaseForm EXCEPT !.strength_rank = SameRanks],
      [BaseForm EXCEPT !.opportunity_rank = BadRank] }

ParticipantPosts ==
    FormPosts \cup { [BaseForm EXCEPT !.relationship = "self"] }

\* one entry of data['strengths'] or data['opportunities']
Entry(text, rank) ==
    [has_text |-> TRUE, text |-> text, has_rank |-> TRUE,
     rank_is_number |-> TRUE, rank_number |-> rank, rank_text |-> <<>>]

FiveEntries(choices) == [k \in 1..5 |-> Entry(choices[k], 6 - k)]

BaseData ==
    [has_relationship |-> TRUE, relationship |-> "peer",
     missing_answers |-> {}, answers |-> AllMeets,
     strengths |-> FiveEntries(get_strength_choices),
     opportunities |-> FiveEntries(get_opportunity_choices)]

\* JSON bodies posted to api_submit_survey: a complete one, one without
\* 'relationship', one with free values and two rankings, one whose second
\* opportunity has no 'rank'
ApiData ==
    { BaseData,
      [BaseData EXCEPT !.has_relationship = FALSE],
      [BaseData EXCEPT !.relationship = "self",
                       !.answers = [AllMeets EXCEPT ![LastQuestion] = "agree"],
                       !.strengths = <<Entry("Great listener", 9),
                                       Entry("Integrity", 9)>>,
                       !.opportunities = <<>>],
      [BaseData EXCEPT !.opportunities =
          <<[Entry(get_opportunity_choices[1], 0) EXCEPT
                !.rank_is_number = FALSE, !.rank_text = <<"5">>],
            [Entry(get_opportunity_choices[2], 4) EXCEPT
                !.has_rank = FALSE]>>] }

\* the head of a request to api_submit_survey: the token of the URL, and
\* the body as far as lines 556-572 read it
ApiHead(token, json_ok, has_invitation_token, invitation_token) ==
    [token |-> token, json_ok |-> json_ok,
     has_invitation_token |-> has_invitation_token,
     invitation_token |-> invitation_token]

\* texts of tokens: generate_token joins 64 random letters and digits, the
\* model's texts are shorter; such a text may hold any word
TokenTexts ==
    { <<"a", "B", "3">>,
      <<"x", "i", "n", "v", "i", "t", "a", "t", "i", "o", "n", "7">> }

\* the tokens of the requests to submit_survey_view: of an invitation, of a
\* survey, of nothing
UrlTokens ==
    {UrlToken(text, t, NoToken) :
        text \in TokenTexts, t \in 0..Len(invitations)}
    \cup {UrlToken(text, NoToken, t) :
              text \in TokenTexts, t \in 1..Len(surveys)}

ApiHeads ==
    {ApiHead(NoToken, FALSE, FALSE, NoToken)}
    \cup {ApiHead(NoToken, TRUE, TRUE, t) : t \in 0..Len(invitations)}
    \cup {ApiHead(t, TRUE, FALSE, NoToken) : t \in 0..Len(surveys)}

(***************************************************************************)
(* The specification.                                                      *)
(***************************************************************************)
\* The database after an administrator created a survey for a leader:
\* the submission workflow of one survey, from the leader's self-assessment
\* to the participants' responses.
Init ==
    /\ now = 0
    /\ surveys = <<NewSurvey>>
    /\ invitations = <<>>
    /\ responses = <<>>
    /\ strength_rankings = <<>>
    /\ opportunity_rankings = <<>>
    /\ inflight = EmptyBag
    /\ reports = <<>>
    /\ context = NoContext

Next ==
    \/ Tick
    \/ \E token \in 0..Len(surveys), method \in Methods :
           leader_self_assessment_view(token, method)
    \/ \E token \in 1..Len(surveys), post \in FormPosts :
           leader_self_assessment_post(token, post)
    \/ \E token \in 0..Len(surveys), r \in DashboardRequests :
           leader_dashboard_view(token, r.method, r.post)
    \/ \E token \in 0..Len(invitations), method \in Methods :
           participant_survey_view(token, method)
    \/ \E token \in 1..Len(invitations), post \in ParticipantPosts :
           participant_survey_post(token, post)
    \/ \E head \in ApiHeads :
           api_submit_survey(head)
    \/ \E token \in 1..Len(invitations), data \in ApiData :
           api_submit_survey_create("api_participant", token, data)
    \/ \E token \in 1..Len(surveys), data \in ApiData :
           api_submit_survey_create("api_leader", token, data)
    \/ \E user \in Users, survey_id \in 0..Len(surveys) :
           survey_detail_view(user, survey_id)
    \/ \E url \in UrlTokens, method \in Methods :
           submit_survey_view(url, method)

Spec == Init /\ [][Next]_vars

(***************************************************************************)
(* The administrator's side: surveys are created in an empty database,     *)
(* and their reports are generated, sent to the leader and viewed.         *)
(***************************************************************************)
InitAdmin ==
    /\ now = 0
    /\ surveys = <<>>
    /\ invitations = <<>>
    /\ responses = <<>>
    /\ strength_rankings = <<>>
    /\ opportunity_rankings = <<>>
    /\ inflight = EmptyBag
    /\ reports = <<>>
    /\ context = NoContext

NextAdmin ==
    \/ Tick
    \/ \E r \in CreateSurveyRequests :
           create_survey_view(r.user, r.method, r.form_ok, r.transport)
    \/ \E user \in Users, survey_id \in 0..Len(surveys) :
           generate_report_view(user, survey_id)
    \/ \E user \in Users, method \in Methods, survey_id \in 0..Len(surveys) :
           api_generate_report(user, method, survey_id)
    \/ \E user \in Users, survey_id \in 0..Len(surveys),
             transport \in MailTransports :
           send_report_view(user, survey_id, transport)
    \/ \E report_token \in 0..Len(reports) :
           view_report(report_token)

SpecAdmin == InitAdmin /\ [][NextAdmin]_vars

(***************************************************************************)
(* The report of a survey over the responses collected for it.             *)
(***************************************************************************)
\* answers as the views store them: every question 'meets', every question
\* 'above', two questions off 'meets', and a body posted to
\* api_submit_survey with three answers left empty and a free text
ReportAnswers ==
    { AllMeets,
      [q \in Questions |-> "above"],
      [AllMeets EXCEPT ![FirstQuestion] = "significantly_above",
                       ![FirstQuestion + 1] = "below"],
      [q \in Questions |->
          IF q \in FirstQuestion..(FirstQuestion + 2) THEN ""
          ELSE IF q = LastQuestion THEN "agree" ELSE "meets"] }

\* answers that go through the seven values of the scale in turn
EveryValue ==
    [q \in Questions |-> LIKERT_CHOICES[((q - FirstQuestion) % 7) + 1]]

\* who responded through a form: the leader, or a participant with a
\* relationship; the rankings are those of the choices first, first + 1, ...
ReportRespondents ==
    { [survey |-> 1, relationship |-> "self",
       is_leader_self_assessment |-> TRUE, first |-> 1, ranked |-> 5],
      [survey |-> 1, relationship |-> "peer",
       is_leader_self_assessment |-> FALSE, first |-> 4, ranked |-> 5],
      [survey |-> 1, relationship |-> "teacher",
       is_leader_self_assessment |-> FALSE, first |-> 9, ranked |-> 5] }

\* a leader who responded through api_submit_survey, with the relationship
\* of the posted body and seven rankings
ApiLeader ==
    [survey |-> 1, relationship |-> "peer",
     is_leader_self_assessment |-> TRUE, first |-> 14, ranked |-> 7]

\* the submissions drawn: the respondents of the first survey with each of
\* the answers, a participant of the second survey, a participant who
\* chose every value, and the leader's submissions through the API
ReportSubmissions ==
    { [respondent |-> r, answers |-> a] :
          r \in ReportRespondents, a \in ReportAnswers }
    \cup { [respondent |->
               [survey |-> 2, relationship |-> "peer",
                is_leader_self_assessment |-> FALSE, first |-> 1,
                ranked |-> 5],
            answers |-> [q \in Questions |-> "above"]],
           [respondent |->
               [survey |-> 1, relationship |-> "peer",
                is_leader_self_assessment |-> FALSE, first |-> 4,
                ranked |-> 5],
            answers |-> EveryValue],
           [respondent |-> ApiLeader, answers |-> AllMeets],
           [respondent |-> ApiLeader,
            answers |-> [AllMeets EXCEPT
                            ![FirstQuestion] = "significantly_above",
                            ![FirstQuestion + 1] = "below"]] }

ReportSubmissionLists ==
    UNION { [1..n -> ReportSubmissions] : n \in 0..MaxReportResponses }

\* the number of participants among the first k submissions
participants_before(subs, k) ==
    Cardinality({j \in 1..k : ~subs[j].respondent.is_leader_self_assessment})

\* the position of the k-th participant's submission
participant_position(subs, k) ==
    CHOOSE j \in 1..Len(subs) :
        /\ ~subs[j].respondent.is_leader_self_assessment
        /\ participants_before(subs, j) = k

\* the rows that the views, or generate_dummy_data, store for submissions
stored_responses(subs) ==
    [k \in 1..Len(subs) |->
        [survey |-> subs[k].respondent.survey,
         invitation |-> IF subs[k].respondent.is_leader_self_assessment
                        THEN NoneId ELSE participants_before(subs, k),
         relationship |-> subs[k].respondent.relationship,
         is_leader_self_assessment |->
             subs[k].respondent.is_leader_self_assessment,
         answers |-> subs[k].answers]]

stored_invitations(subs) ==
    [k \in 1..participants_before(subs, Len(subs)) |->
        [NewInvitation(subs[participant_position(subs, k)].respondent.survey,
                       <<"p">> \o Str(k) \o <<"@", "b", ".", "c">>, 1)
            EXCEPT !.used = TRUE]]

\* the rankings of the first k responses: for each response those of its
\* choices, the ranks counted down, rank = 5 - i for the five of a form
RECURSIVE stored_rankings_upto(_, _, _)
stored_rankings_upto(subs, choices, k) ==
    IF k = 0 THEN <<>>
    ELSE stored_rankings_upto(subs, choices, k - 1)
         \o [n \in 1..subs[k].respondent.ranked |->
                [response |-> k,
                 label |-> choices[subs[k].respondent.first + n - 1],
                 rank |-> subs[k].respondent.ranked - (n - 1)]]

stored_rankings(subs, choices) == stored_rankings_upto(subs, choices, Len(subs))

InitReport ==
    /\ now = 1
    /\ surveys = <<[NewSurvey EXCEPT !.leader_completed_self = TRUE],
                   [NewSurvey EXCEPT !.leader_completed_self = TRUE]>>
    /\ \E subs \in ReportSubmissionLists :
           /\ invitations = stored_invitations(subs)
           /\ responses = stored_responses(subs)
           /\ strength_rankings = stored_rankings(subs, get_strength_choices)
           /\ opportunity_rankings =
                  stored_rankings(subs, get_opportunity_choices)
    /\ inflight = EmptyBag
    /\ reports = <<NewReport(1, 1, "staff", 0)>>
    /\ context = NoContext

NextReport ==
    \E report_token \in 0..Len(reports) : view_report(report_token)

SpecReport == InitReport /\ [][NextReport]_vars

(***************************************************************************)
(* Properties.                                                             *)
(***************************************************************************)
\* the ids of the responses linked to the invitation token
responses_of(table, token) ==
    {k \in 1..Len(table) : table[k].invitation = token}

\* the rankings of a response
rankings_of(rows, response) ==
    {k \in 1..Len(rows) : rows[k].response = response}

\* requests to api_submit_survey that name the invitation token
ApiHeadsOf(token) ==
    {head \in ApiHeads :
        head.has_invitation_token /\ head.invitation_token = token}

\* form posts whose number of strengths or of opportunities is not 5
WrongCountPosts ==
    {post \in FormPosts \cup ParticipantPosts :
        Len(post.strengths) # 5 \/ Len(post.opportunities) # 5}

\* C1: for every invitation and every current time, is_valid is true if
\* and only if the invitation is not used and the current time is strictly
\* before expires_at; at now = expires_at the invitation is not valid.
C1_ValidIffUnusedAndBeforeExpiry ==
    \A token \in 1..Len(invitations) :
        is_valid(invitations[token])
            <=> (~invitations[token].used
                 /\ now < invitations[token].expires_at)

\* C2: once an invitation is marked used, every submission attempt that
\* arrives with its token, at participant_survey_view or at
\* api_submit_survey, is answered with a rejection, is not taken up and
\* leaves every table as it is.
C2_UsedTokenIsRejected ==
    [][\A token \in 1..Len(invitations) :
          invitations[token].used =>
              /\ \A method \in Methods :
                     /\ participant_survey_view_response(token, method)
                            = "invalid_link"
                     /\ participant_survey_view(token, method)
                            => UNCHANGED <<tables, inflight>>
              /\ \A head \in ApiHeadsOf(token) :
                     /\ api_submit_survey_response(head)
                            = "400 Survey already completed"
                     /\ api_submit_survey(head)
                            => UNCHANGED <<tables, inflight>>]_vars

\* a used invitation with its stored response, not yet expired, so that an
\* attempt with its token is turned away for the flag alone
C2_Witness ==
    \E token \in 1..Len(invitations) :
        /\ invitations[token].used
        /\ ~is_expired(invitations[token])
        /\ responses_of(responses, token) # {}
        /\ ApiHeadsOf(token) # {}

\* C3: in every reachable state, submissions that failed part-way
\* included, each invitation is linked to at most one stored response.
C3_OneResponsePerInvitation ==
    \A token \in 1..Len(invitations) :
        Cardinality(responses_of(responses, token)) <= 1

\* C4: the used flag goes from false to true once: of two submissions for
\* the same valid token whose steps interleave, at most one stores a
\* response and marks the invitation; no step stores a response for, or
\* writes, an invitation that is already used.
C4_UsedInvitationStoresNothing ==
    [][\A token \in 1..Len(invitations) :
          invitations[token].used =>
              /\ responses_of(responses', token)
                     = responses_of(responses, token)
              /\ invitations'[token] = invitations[token]]_vars

\* C5: a leader or participant form submission with a number of strengths
\* other than 5, or of opportunities other than 5, fails validation and
\* stores no response and no ranking, and leaves the used flag and the
\* self-assessment flag as they are.
C5_WrongCountFailsValidation ==
    /\ \A post \in WrongCountPosts :
           ~SurveyResponseForm(post) /\ ~LeaderSelfAssessmentForm(post)
    /\ [][\A post \in WrongCountPosts :
             /\ \A token \in 1..Len(invitations) :
                    participant_survey_post(token, post)
                        => /\ participant_survey_post_response(token, post)
                               = "form_errors"
                           /\ UNCHANGED tables
             /\ \A token \in 1..Len(surveys) :
                    leader_self_assessment_post(token, post)
                        => /\ leader_self_assessment_post_response(token,
                                  post) = "form_errors"
                           /\ UNCHANGED tables]_vars

\* a participant's and a leader's submission with 4 or 6 selections are
\* about to be validated
C5_Witness ==
    /\ \E token \in 1..Len(invitations), post \in WrongCountPosts :
           /\ Len(post.strengths) = 6
           /\ ENABLED participant_survey_post(token, post)
    /\ \E token \in 1..Len(surveys), post \in WrongCountPosts :
           /\ Len(post.opportunities) = 4
           /\ ENABLED leader_self_assessment_post(token, post)

\* the ranks of the rankings of a response are 1..5, each once
ranks_one_to_five(rows, response) ==
    /\ Cardinality(rankings_of(rows, response)) = 5
    /\ {rows[k].rank : k \in rankings_of(rows, response)} = 1..5

\* C6: in every reachable state every stored response, from the leader
\* form, the participant form or api_submit_survey, has exactly 5 strength
\* rankings and exactly 5 opportunity rankings, with pairwise distinct
\* ranks in 1..5 within each set.
C6_FiveDistinctRanks ==
    \A response \in 1..Len(responses) :
        /\ ranks_one_to_five(strength_rankings, response)
        /\ ranks_one_to_five(opportunity_rankings, response)

\* C7: an invitation that is not valid, used or past its expiry, is not
\* valid in any later state: no step resets used or moves expires_at later.
C7_InvalidStaysInvalid ==
    [][\A token \in 1..Len(invitations) :
          ~is_valid(invitations[token]) =>
              /\ token \in 1..Len(invitations')
              /\ ~is_valid(invitations[token])'
              /\ invitations[token].used => invitations'[token].used
              /\ invitations'[token].expires_at
                     <= invitations[token].expires_at]_vars

\* a used invitation after a second request wrote it, and an invitation
\* that went past its expiry unused
C7_Witness ==
    /\ \E token \in 1..Len(invitations) :
           /\ invitations[token].used
           /\ Cardinality(responses_of(responses, token)) = 2
    /\ \E token \in 1..Len(invitations) :
           /\ ~invitations[token].used
           /\ is_expired(invitations[token])

\* C8: in every reachable state no two invitations share a (survey, email)
\* pair, letter case aside: whatever list is posted to
\* leader_dashboard_view, an address that has an invitation for the survey
\* gets no second one; with the requests handled one after the other the
\* database never has to refuse a row.
C8_SurveyEmailUnique ==
    /\ \A i, j \in 1..Len(invitations) :
           (/\ i # j
            /\ invitations[i].survey = invitations[j].survey)
               => Lower(invitations[i].email) # Lower(invitations[j].email)
    /\ \A token \in 1..Len(surveys), r \in DashboardRequests :
           \A delivered \in Deliveries(r.post) :
               leader_dashboard_view_response(token, r.method, r.post,
                   delivered).result # "error500"

\* two invitations of one survey, and posted lists that repeat an address
\* and that spell an invited address in capitals
C8_Witness ==
    /\ Len(invitations) = 2
    /\ invitations[1].survey = invitations[2].survey
    /\ \E text \in EmailTexts :
           LET emails == InvitationForm([emails |-> text,
                                         expires_at |-> 1]).emails
           IN  /\ Len(emails) = 2
               /\ emails[1] = emails[2]
               /\ \E k \in 1..Len(text) : text[k] \in Range(UpperCase)
               /\ invitation_exists(invitations, 1, emails[1])

\* the responses of the survey of the report rendered last
context_responses ==
    {k \in 1..Len(responses) : responses[k].survey = context.survey}

\* C9: for one or more responses whose Likert answers are all 'meets',
\* the report's average of each of the 54 questions, the average of every
\* relationship category with a response, and the overall average are 4.0.
C9_AllMeetsAveragesFour ==
    (/\ context.result = "200"
     /\ context_responses # {}
     /\ \A k \in context_responses, q \in Questions :
            responses[k].answers[q] = "meets")
        => /\ DOMAIN context.question_stats = Questions
           /\ \A q \in Questions :
                  /\ context.question_stats[q].average = 400
                  /\ \A k \in context_responses :
                         context.question_stats[q].by_relationship[
                             report_relationship(responses[k])] = 400
           /\ context.overall_average = 400

\* a report over all-'meets' responses of the leader and of a participant
C9_Witness ==
    /\ context.result = "200"
    /\ Cardinality(context_responses) >= 2
    /\ \A k \in context_responses, q \in Questions :
           responses[k].answers[q] = "meets"
    /\ \E k \in context_responses : responses[k].is_leader_self_assessment
    /\ \E k \in context_responses : ~responses[k].is_leader_self_assessment

\* C10: for a survey without responses view_report completes, with no
\* statistics entry for any of the 54 questions and with empty lists of
\* top strengths and top opportunities.
C10_NoResponsesNoStatistics ==
    \A report_token \in 1..Len(reports) :
        (\A k \in 1..Len(responses) :
             responses[k].survey # reports[report_token].survey)
            => LET rendered == report_context(reports[report_token].survey)
               IN  /\ rendered.result = "200"
                   /\ DOMAIN rendered.question_stats = {}
                   /\ rendered.top_strengths = <<>>
                   /\ rendered.top_opportunities = <<>>
                   /\ rendered.overall_average = 0
                   /\ (/\ context.result = "200"
                       /\ context.survey = reports[report_token].survey)
                          => context = rendered

\* the report of a survey without responses, rendered while another survey
\* has responses
C10_Witness ==
    /\ context.result = "200"
    /\ context_responses = {}
    /\ responses # <<>>

\* C11: participant_survey_view called with a token that matches no
\* invitation, or with the token of a used or of an expired invitation,
\* renders the invalid-link page for GET and for POST, takes the request
\* no further and changes no table.
C11_InvalidLinkChangesNothing ==
    [][\A token \in 0..Len(invitations), method \in Methods :
          (\/ ~InvitationExists(token)
           \/ invitations[token].used
           \/ is_expired(invitations[token]))
              => /\ participant_survey_view_response(token, method)
                     = "invalid_link"
                 /\ participant_survey_view(token, method)
                        => UNCHANGED <<tables, inflight>>]_vars

\* a used invitation and an invitation that expired unused are stored, and
\* a worker is free to take a request
C11_Witness ==
    /\ ~InvitationExists(NoToken)
    /\ \E token \in 1..Len(invitations) : invitations[token].used
    /\ \E token \in 1..Len(invitations) :
           ~invitations[token].used /\ is_expired(invitations[token])
    /\ BagCardinality(inflight) < Cardinality(Workers)
    /\ Len(responses) + BagCardinality(inflight) < MaxResponses

\* the requests of a staff member that post a valid survey form
ValidSurveyPosts ==
    {r \in CreateSurveyRequests :
        is_staff(r.user) /\ r.method = "POST" /\ r.form_ok}

\* C12: when the mail transport fails while create_survey_view sends the
\* self-assessment email, the send function returns False and raises
\* nothing, the administrator is shown the warning and not the success
\* message, and the new survey is stored; it is stored as well when the
\* transport accepts the email, and then the success message is shown.
C12_MailFailureKeepsSurvey ==
    [][\A r \in ValidSurveyPosts :
          create_survey_view(r.user, r.method, r.form_ok, r.transport)
              => /\ surveys' = Append(surveys, NewSurvey)
                 /\ r.transport = "refused"
                        => /\ send_leader_self_assessment_email(r.transport)
                               = "False"
                           /\ create_survey_view_response(r.user, r.method,
                                  r.form_ok, r.transport)
                                  = "redirect survey_detail, warning"
                 /\ r.transport = "accepted"
                        => create_survey_view_response(r.user, r.method,
                               r.form_ok, r.transport)
                               = "redirect survey_detail, success"]_vars

\* a survey was created in the empty database, by a request that is posted
\* both with a transport that refuses the email and with one that accepts
C12_Witness ==
    /\ surveys # <<>>
    /\ \E r \in ValidSurveyPosts : r.transport = "refused"
    /\ \E r \in ValidSurveyPosts : r.transport = "accepted"

\* the positions of a cleaned list whose address gets a new invitation: the
\* survey has none for it, and it stands at no earlier position
new_positions(survey, emails) ==
    {k \in 1..Len(emails) :
        /\ \A i \in 1..Len(invitations) :
               ~(invitations[i].survey = survey
                 /\ invitations[i].email = emails[k])
        /\ \A j \in 1..(k - 1) : emails[j] # emails[k]}

\* C13: in leader_dashboard_view a transport failure for one address does
\* not stop the remaining addresses: after a valid list is posted every
\* address of it has an invitation, one row is added per new address, the
\* warning names the new addresses whose email failed, in their order, and
\* the success count is the number of new addresses whose email was
\* delivered.
C13_MailFailureDoesNotStopList ==
    \A token \in 1..Len(surveys), post \in InvitationPosts :
        \A delivered \in Deliveries(post) :
            LET form == InvitationForm(post)
                new == new_positions(token, form.emails)
                failed == new \ delivered
                response == leader_dashboard_view_response(token, "POST",
                                post, delivered)
                loop == invitations_loop(invitations, token, form.emails,
                            form.expires_at, delivered, 1, 0, <<>>)
            IN  (surveys[token].leader_completed_self /\ form.is_valid)
                    => /\ response.result = "redirect leader_dashboard"
                       /\ response.created_count
                              = Cardinality(new \cap delivered)
                       /\ Len(response.failed_emails) = Cardinality(failed)
                       /\ \A k \in failed :
                              response.failed_emails[
                                  Cardinality({j \in failed : j <= k})]
                                  = form.emails[k]
                       /\ Len(loop.table)
                              = Len(invitations) + Cardinality(new)
                       /\ \A k \in 1..Len(form.emails) :
                              \E i \in 1..Len(loop.table) :
                                  /\ loop.table[i].survey = token
                                  /\ loop.table[i].email = form.emails[k]

\* the invitations of a list of two new addresses are stored, the second
\* after the first, whose email the transport may have refused
C13_Witness ==
    \E post \in InvitationPosts :
        LET emails == InvitationForm(post).emails
        IN  /\ Len(emails) = 2
            /\ emails[1] # emails[2]
            /\ Len(invitations) = 2
            /\ \A k \in 1..2 : invitations[k].email = emails[k]
            /\ {1} \in Deliveries(post) /\ {2} \in Deliveries(post)

\* the scores of the seven values as the claim lists them
listed_scores ==
    [significantly_above |-> 7, above |-> 6, slightly_above |-> 5,
     meets |-> 4, slightly_below |-> 3, below |-> 2,
     significantly_below |-> 1]

\* the score of a value by that list, 4 for a value that is not on it
listed_score(value) ==
    IF value \in DOMAIN listed_scores THEN listed_scores[value] ELSE 4

\* the responses of the rendered survey that answered question q, among
\* the responses from id on
answered_from(q, id) ==
    {k \in context_responses : k >= id /\ responses[k].answers[q] # ""}

\* C14: calculate_likert_score maps significantly_above, above,
\* slightly_above, meets, slightly_below, below, significantly_below to
\* 7, 6, 5, 4, 3, 2, 1 and every other value to 4, always an integer in
\* 1..7; these are the scores view_report lists for each question, one per
\* answered response.
C14_LikertScoreTable ==
    /\ DOMAIN listed_scores = Range(LIKERT_CHOICES)
    /\ \A value \in Range(LIKERT_CHOICES) \cup {"", "agree", "Meets"} :
           /\ calculate_likert_score(value) = listed_score(value)
           /\ calculate_likert_score(value) \in 1..7
    /\ \A k \in 1..Len(responses), q \in Questions :
           /\ calculate_likert_score(responses[k].answers[q])
                  = listed_score(responses[k].answers[q])
           /\ calculate_likert_score(responses[k].answers[q]) \in 1..7
    /\ context.result = "200"
           => \A q \in Questions :
                  IF answered_from(q, 1) = {}
                  THEN q \notin DOMAIN context.question_stats
                  ELSE /\ q \in DOMAIN context.question_stats
                       /\ Len(context.question_stats[q].scores)
                              = Cardinality(answered_from(q, 1))
                       /\ \A k \in answered_from(q, 1) :
                              context.question_stats[q].scores[
                                  Cardinality(answered_from(q, k))]
                                  = listed_score(responses[k].answers[q])

\* a report over a response that chose every value of the scale and a
\* response with a free text and unanswered questions
C14_Witness ==
    /\ context.result = "200"
    /\ \E k \in context_responses :
           {responses[k].answers[q] : q \in Questions}
               = Range(LIKERT_CHOICES)
    /\ \E k \in context_responses :
           /\ responses[k].answers[LastQuestion] = "agree"
           /\ responses[k].answers[FirstQuestion] = ""

\* the responses of the rendered survey that answered question q and
\* belong to the category rel: the flagged ones to 'self', the others to
\* their relationship field
category_members(q, rel) ==
    {k \in answered_from(q, 1) :
        IF responses[k].is_leader_self_assessment THEN rel = "self"
        ELSE rel = responses[k].relationship}

\* the sum of the scores that the responses of a set gave to question q
RECURSIVE score_total(_, _)
score_total(members, q) ==
    IF members = {} THEN 0
    ELSE LET k == CHOOSE m \in members : TRUE
         IN  listed_score(responses[k].answers[q])
             + score_total(members \ {k}, q)

\* v, in hundredths, is total / count to the nearest hundredth
is_mean(v, total, count) ==
    /\ 2 * (100 * total - v * count) <= count
    /\ 2 * (v * count - 100 * total) <= count

\* C15: for every question with a score view_report gives, for each of
\* self, supervisor, peer, teacher, student and parent, the mean (to two
\* decimals) of the scores of the responses of that category, a flagged
\* response counting as 'self' and any other by its relationship field; a
\* category without observations is None and never 0.
C15_MeanPerCategory ==
    context.result = "200"
        => \A q \in DOMAIN context.question_stats :
               /\ DOMAIN context.question_stats[q].by_relationship
                      = {"self", "supervisor", "peer", "teacher", "student",
                         "parent"}
               /\ \A rel \in DOMAIN context.question_stats[q].by_relationship :
                      LET members == category_members(q, rel)
                          v == context.question_stats[q].by_relationship[rel]
                      IN  /\ v # 0
                          /\ IF members = {} THEN v = NoneAverage
                             ELSE is_mean(v, score_total(members, q),
                                      Cardinality(members))

\* a report over the leader's response stored with the relationship
\* 'peer' and a participant's response, with categories left empty
C15_Witness ==
    /\ context.result = "200"
    /\ \E k \in context_responses :
           /\ responses[k].is_leader_self_assessment
           /\ responses[k].relationship = "peer"
    /\ \E k \in context_responses :
           /\ ~responses[k].is_leader_self_assessment
           /\ responses[k].answers[FirstQuestion] \notin {"", "meets"}
    /\ context.question_stats[FirstQuestion].by_relationship["parent"]
           = NoneAverage

\* the rankings, of a table, of the responses of the rendered survey that
\* chose a label
chosen(rows, label) ==
    {n \in 1..Len(rows) :
        rows[n].response \in context_responses /\ rows[n].label = label}

\* the rankings, of a table, of the responses of the rendered survey
chosen_any(rows) ==
    {n \in 1..Len(rows) : rows[n].response \in context_responses}

\* the sum of the ranks of a set of rankings
RECURSIVE rank_total(_, _)
rank_total(rows, ns) ==
    IF ns = {} THEN 0
    ELSE LET n == CHOOSE m \in ns : TRUE
         IN  rows[n].rank + rank_total(rows, ns \ {n})

\* the ranking with which view_report meets a label first: that of the
\* newest response that chose it
first_met(rows, label) ==
    CHOOSE n \in chosen(rows, label) :
        \A m \in chosen(rows, label) : rows[m].response <= rows[n].response

\* view_report meets label a before label b: in a newer response, or in
\* the same response with a higher rank
met_before(rows, a, b) ==
    LET na == first_met(rows, a)
        nb == first_met(rows, b)
    IN  \/ rows[na].response > rows[nb].response
        \/ /\ rows[na].response = rows[nb].response
           /\ rows[na].rank > rows[nb].rank

\* label a stands before label b in the order of the claim: a higher mean
\* rank, or the same mean rank and met first
stands_before(rows, a, b) ==
    LET ta == rank_total(rows, chosen(rows, a))
        tb == rank_total(rows, chosen(rows, b))
        ca == Cardinality(chosen(rows, a))
        cb == Cardinality(chosen(rows, b))
    IN  \/ ta * cb > tb * ca
        \/ ta * cb = tb * ca /\ met_before(rows, a, b)

\* a list of the report is the top of that order over the rankings rows
is_top_list(rows, top) ==
    LET labels == {rows[n].label : n \in chosen_any(rows)}
        listed == {top[i].label : i \in 1..Len(top)}
    IN  /\ listed \subseteq labels
        /\ \A i, j \in 1..Len(top) : i # j => top[i].label # top[j].label
        /\ \A i \in 1..Len(top) :
               /\ top[i].count = Cardinality(chosen(rows, top[i].label))
               /\ top[i].total = rank_total(rows, chosen(rows, top[i].label))
        /\ \A i, j \in 1..Len(top) :
               i < j => /\ top[i].total * top[j].count
                              >= top[j].total * top[i].count
                        /\ stands_before(rows, top[i].label, top[j].label)
        /\ Len(top) = IF Cardinality(labels) < 10 THEN Cardinality(labels)
                      ELSE 10
        /\ \A a \in listed, b \in labels \ listed : stands_before(rows, a, b)

\* C16: the top strengths, and likewise the top opportunities, of the
\* report hold each label at most once, with its mean rank over all the
\* rankings that chose it and their number, in the order of non-increasing
\* mean rank, labels of equal mean rank in the order in which they were
\* first met; the list is the first 10 entries of that order, or all of
\* them when there are fewer.
C16_TopTenByMeanRank ==
    context.result = "200"
        => /\ is_top_list(strength_rankings, context.top_strengths)
           /\ is_top_list(opportunity_rankings, context.top_opportunities)

\* a report over more than 10 distinct labels, cut to 10, with two labels
\* of the same mean rank next to each other
C16_Witness ==
    /\ context.result = "200"
    /\ Len(context.top_strengths) = 10
    /\ Cardinality({strength_rankings[n].label :
                       n \in chosen_any(strength_rankings)}) > 10
    /\ \E i \in 1..9 :
           /\ context.top_strengths[i].total
                  * context.top_strengths[i + 1].count
                  = context.top_strengths[i + 1].total
                        * context.top_strengths[i].count
           /\ first_met(strength_rankings, context.top_strengths[i].label)
                  # first_met(strength_rankings,
                        context.top_strengths[i + 1].label)

\* for each question in turn, the sum of the scores given to it, and the
\* number of responses that answered it, in the rendered survey
question_totals ==
    [i \in 1..(LastQuestion - FirstQuestion + 1) |->
        score_total(answered_from(i + FirstQuestion - 1, 1),
            i + FirstQuestion - 1)]

question_counts ==
    [i \in 1..(LastQuestion - FirstQuestion + 1) |->
        Cardinality(answered_from(i + FirstQuestion - 1, 1))]

\* C17: the overall average of the report is the mean (to two decimals)
\* of all the single scores, over all questions and all responses, which
\* is not the mean of the averages of the questions; it is 0 when there is
\* no score.
C17_OverallMeanOfAllScores ==
    context.result = "200"
        => IF Sum(question_counts) = 0 THEN context.overall_average = 0
           ELSE is_mean(context.overall_average, Sum(question_totals),
                    Sum(question_counts))

\* a report in which one response left a question open that another
\* answered above 'meets', so that the questions weigh differently
C17_Witness ==
    /\ context.result = "200"
    /\ \E k \in context_responses : responses[k].answers[FirstQuestion] = ""
    /\ \E k \in context_responses :
           responses[k].answers[FirstQuestion] = "significantly_above"
    /\ LET count == LastQuestion - FirstQuestion + 1
           averages == [i \in 1..count |->
                           context.question_stats[i + FirstQuestion - 1].average]
       IN  context.overall_average
               # (2 * Sum(averages) + count) \div (2 * count)

\* C18: in every reachable state every stored response has each of its 54
\* Likert answers, q2 to q55, equal to one of the 7 values of
\* LIKERT_CHOICES, whether the leader form, the participant form or
\* api_submit_survey created it.
C18_LikertAnswersEnumerated ==
    \A k \in 1..Len(responses), q \in Questions :
        responses[k].answers[q] \in Range(LIKERT_CHOICES)

\* the texts clean_emails is given: the posted texts as they are and as
\* the field strips them, an address with a second '@' after the dot, and
\* a list with a good and a bad line
ListTexts ==
    EmailTexts \cup {Strip(text) : text \in EmailTexts}
        \cup {<<"a", "@", "b", ".", "c", "@", "d">>,
               <<"a", "@", "b", ".", "c", "\n", "a", "b">>}

\* the surveys whose dashboard takes a list: the leader has assessed
\* themself
open_dashboards ==
    {token \in 1..Len(surveys) : surveys[token].leader_completed_self}

\* the lines of a text that are not blank, trimmed, in their order
nonblank_lines(text) ==
    LET lines == Split(text, "\n")
    IN  SelectSeq([i \in 1..Len(lines) |-> Strip(lines[i])],
            LAMBDA line : line # <<>>)

\* a line without '@', or without a '.' after the '@'
no_dot_after_at(line) ==
    ~\E i, j \in 1..Len(line) : i < j /\ line[i] = "@" /\ line[j] = "."

\* a line without '@', or without a '.' between its first '@' and the
\* next '@' or the end of the line
no_dot_in_second_part(line) ==
    ~\E i, j \in 1..Len(line) :
        /\ i < j /\ line[i] = "@" /\ line[j] = "."
        /\ \A m \in 1..(j - 1) : m # i => line[m] # "@"

\* C19 as stated: for a list posted to a dashboard that takes one,
\* clean_emails rejects the whole list when a non-blank line does not
\* contain '@' or has no '.' after the '@', and rejects a list without a
\* non-blank line; otherwise it returns the non-blank lines, trimmed and
\* lower-cased, in input order.
C19_DotAfterAt ==
    \A token \in open_dashboards, text \in ListTexts :
        LET lines == nonblank_lines(text)
            r == clean_emails(text)
        IN  IF lines = <<>>
               \/ \E i \in 1..Len(lines) : no_dot_after_at(lines[i])
            THEN ~r.ok
            ELSE r.ok /\ r.emails = [i \in 1..Len(lines) |-> Lower(lines[i])]

\* C19, amended: for a list posted to a dashboard that takes one,
\* clean_emails rejects the whole list when a non-blank line does not
\* contain '@' or has no '.' in the part between its first '@' and the
\* next '@' (or the end of the line), and rejects a list without a
\* non-blank line; otherwise it returns the non-blank lines, trimmed and
\* lower-cased, in input order.
C19_DotInSecondPart ==
    \A token \in open_dashboards, text \in ListTexts :
        LET lines == nonblank_lines(text)
            r == clean_emails(text)
        IN  IF lines = <<>>
               \/ \E i \in 1..Len(lines) : no_dot_in_second_part(lines[i])
            THEN ~r.ok
            ELSE r.ok /\ r.emails = [i \in 1..Len(lines) |-> Lower(lines[i])]

\* the invitations of a posted list with a blank line between its two
\* addresses are stored, and a list with a line of two '@' was posted
C19_Witness ==
    /\ \E text \in EmailTexts :
           /\ clean_emails(text).ok
           /\ Len(Split(text, "\n")) > Len(clean_emails(text).emails)
           /\ Len(clean_emails(text).emails) = 2
           /\ Len(invitations) = 2
           /\ \A k \in 1..2 :
                  invitations[k].email = clean_emails(text).emails[k]
    /\ \E text \in EmailTexts :
           /\ ~clean_emails(text).ok
           /\ \E i, j \in 1..Len(text) : i < j /\ text[i] = "@" /\ text[j] = "@"

\* C20: whatever generate_report_view and api_generate_report are called
\* with, each survey has at most one report; a call for a survey that has
\* a report sets the generation time and the author of that report and
\* leaves its report_token, its sent_to_leader flag and every other report
\* as they are.
C20_OneReportPerSurvey ==
    [][/\ \A i, j \in 1..Len(reports') :
              i # j => reports'[i].survey # reports'[j].survey
       /\ \A user \in Users, survey_id \in 1..Len(surveys) :
              (\/ generate_report_view(user, survey_id)
               \/ api_generate_report(user, "POST", survey_id))
                  => /\ Len(reports') >= Len(reports)
                     /\ \A k \in 1..Len(reports) :
                            /\ reports'[k].survey = reports[k].survey
                            /\ reports'[k].report_token
                                   = reports[k].report_token
                            /\ reports'[k].sent_to_leader
                                   = reports[k].sent_to_leader
                            /\ reports'[k].sent_at = reports[k].sent_at
                            /\ IF reports[k].survey = survey_id
                               THEN /\ reports'[k].generated_at = now
                                    /\ reports'[k].generated_by = user
                               ELSE reports'[k] = reports[k]]_vars

\* a report that was sent to the leader and generated again later, by the
\* second administrator
C20_Witness ==
    \E k \in 1..Len(reports) :
        /\ reports[k].sent_to_leader
        /\ reports[k].generated_at > reports[k].sent_at
        /\ reports[k].generated_by = "admin"

\* the step stored the whole submission posted as data: the response, one
\* ranking for every entry of its two lists, and the status of the
\* invitation or of the survey
api_stored(view, token, data) ==
    /\ Len(responses') = Len(responses) + 1
    /\ Cardinality(rankings_of(strength_rankings', Len(responses')))
           = Len(data.strengths)
    /\ Cardinality(rankings_of(opportunity_rankings', Len(responses')))
           = Len(data.opportunities)
    /\ IF view = "api_participant" THEN invitations'[token].used
       ELSE surveys'[token].leader_completed_self

\* C21: a POST to api_submit_survey is answered with status 400 and an
\* error when the invitation is used, also when it is expired as well; when
\* the invitation is unused and expired; and when the leader's
\* self-assessment is completed.  It is answered with 200 when the
\* submission is stored, and with 500 for every other failure: a body that
\* is not JSON, a token that matches no row, a submission that failed
\* part-way.
C21_ApiStatuses ==
    [][/\ \A head \in ApiHeads :
              api_submit_survey_response(head) =
                  IF ~head.json_ok THEN "500"
                  ELSE IF head.has_invitation_token
                  THEN IF head.invitation_token \notin 1..Len(invitations)
                       THEN "500"
                       ELSE IF invitations[head.invitation_token].used
                       THEN "400 Survey already completed"
                       ELSE IF now
                                > invitations[head.invitation_token].expires_at
                       THEN "400 Survey link expired"
                       ELSE "create"
                  ELSE IF head.token \notin 1..Len(surveys) THEN "500"
                       ELSE IF surveys[head.token].leader_completed_self
                       THEN "400 Self-assessment already completed"
                       ELSE "create"
       /\ \A data \in ApiData :
              /\ \A token \in 1..Len(invitations) :
                     api_submit_survey_create("api_participant", token, data)
                         => api_submit_survey_create_response(data) =
                                IF api_stored("api_participant", token, data)
                                THEN "200" ELSE "500"
              /\ \A token \in 1..Len(surveys) :
                     api_submit_survey_create("api_leader", token, data)
                         => api_submit_survey_create_response(data) =
                                IF api_stored("api_leader", token, data)
                                THEN "200" ELSE "500"]_vars

\* an invitation that is used and expired, a completed survey and a
\* submission of the interface stored whole: each answer of the claim has
\* been given
C21_Witness ==
    /\ \E token \in 1..Len(invitations) :
           /\ invitations[token].used
           /\ is_expired(invitations[token])
    /\ \E token \in 1..Len(invitations) :
           /\ ~invitations[token].used
           /\ is_expired(invitations[token])
    /\ \E token \in 1..Len(surveys) : surveys[token].leader_completed_self
    /\ \E k \in 1..Len(responses) :
           /\ responses[k].invitation # NoneId
           /\ Cardinality(rankings_of(strength_rankings, k)) = 5

\* C22: in every reachable state a stored response has no invitation if
\* and only if it is flagged as the leader's self-assessment.
C22_NoInvitationIffSelfAssessment ==
    \A k \in 1..Len(responses) :
        (responses[k].invitation = NoneId)
            <=> responses[k].is_leader_self_assessment

\* a response of a participant and a self-assessment are stored, one of
\* them by api_submit_survey, which takes relationship from the body
C22_Witness ==
    /\ \E k \in 1..Len(responses) : responses[k].invitation # NoneId
    /\ \E k \in 1..Len(responses) :
           /\ responses[k].invitation = NoneId
           /\ responses[k].relationship # "self"

\* the ids of the self-assessment responses of the survey
self_assessments_of(table, token) ==
    {k \in 1..Len(table) :
        table[k].survey = token /\ table[k].is_leader_self_assessment}

\* C23: leader_completed_self of a survey changes only from false to true,
\* only in a step that stores a self-assessment response, and never back;
\* once it is true no step stores a further self-assessment response; each
\* survey has at most one self-assessment response in every state.
C23_SelfAssessmentOnce ==
    [][\A token \in 1..Len(surveys) :
          /\ surveys[token].leader_completed_self
                 => /\ surveys'[token].leader_completed_self
                    /\ self_assessments_of(responses', token)
                           = self_assessments_of(responses, token)
          /\ surveys'[token].leader_completed_self
                     # surveys[token].leader_completed_self
                 => self_assessments_of(responses', token)
                        # self_assessments_of(responses, token)
          /\ Cardinality(self_assessments_of(responses', token)) <= 1]_vars

\* the step stored the whole submission posted to a form view
form_stored(view, token, post) ==
    /\ Len(responses') = Len(responses) + 1
    /\ Cardinality(rankings_of(strength_rankings', Len(responses')))
           = Len(post.strengths)
    /\ Cardinality(rankings_of(opportunity_rankings', Len(responses')))
           = Len(post.opportunities)
    /\ IF view = "participant" THEN invitations'[token].used
       ELSE surveys'[token].leader_completed_self

\* C24: a submission is all or nothing on the leader form, the participant
\* form and api_submit_survey: the step that handles it stores the
\* response, all its rankings and the status update, or leaves every table
\* as it is.
C24_AllOrNothing ==
    [][/\ \A token \in 1..Len(surveys), post \in FormPosts :
              leader_self_assessment_post(token, post)
                  => \/ form_stored("leader", token, post)
                     \/ UNCHANGED tables
       /\ \A token \in 1..Len(invitations), post \in ParticipantPosts :
              participant_survey_post(token, post)
                  => \/ form_stored("participant", token, post)
                     \/ UNCHANGED tables
       /\ \A data \in ApiData :
              /\ \A token \in 1..Len(invitations) :
                     api_submit_survey_create("api_participant", token, data)
                         => \/ api_stored("api_participant", token, data)
                            \/ UNCHANGED tables
              /\ \A token \in 1..Len(surveys) :
                     api_submit_survey_create("api_leader", token, data)
                         => \/ api_stored("api_leader", token, data)
                            \/ UNCHANGED tables]_vars

\* C25: in every reachable state a response linked to an invitation has a
\* relationship among supervisor, peer, teacher, student and parent, never
\* 'self', and a self-assessment response has relationship 'self',
\* whichever path stored it.
C25_RelationshipMatchesRole ==
    \A k \in 1..Len(responses) :
        /\ responses[k].invitation # NoneId
               => responses[k].relationship
                      \in {"supervisor", "peer", "teacher", "student",
                           "parent"}
        /\ responses[k].is_leader_self_assessment
               => responses[k].relationship = "self"

\* C26: in the report, response_count is participant_count plus the number
\* of the survey's self-assessment responses, and participant_count is the
\* sum of the counts of supervisors, peers, staff, students and community.
C26_ReportCountsAddUp ==
    context.result = "200"
        => /\ context.response_count
                  = context.participant_count
                    + Cardinality({k \in context_responses :
                          responses[k].is_leader_self_assessment})
           /\ context.participant_count
                  = context.supervisors_count + context.peers_count
                    + context.staff_count + context.students_count
                    + context.community_count

\* C27: at every current time the stats of survey_detail_view satisfy
\* total_invitations = completed + pending + expired, and pending counts
\* the invitations whose is_valid is true at that time, the instant
\* now = expires_at included.
C27_DetailCounts ==
    \A survey_id \in 1..Len(surveys) :
        LET page == survey_detail_view_response("staff", survey_id)
        IN  /\ page.result = "page"
            /\ page.stats.total_invitations
                   = page.stats.completed_invitations
                     + page.stats.pending_invitations
                     + page.stats.expired_invitations
            /\ page.stats.pending_invitations
                   = Cardinality({k \in survey_invitations(survey_id) :
                         is_valid(invitations[k])})

C29_DashboardNeedsSelfAssessment ==
    [][\A token \in 1..Len(surveys), r \in DashboardRequests :
          ~surveys[token].leader_completed_self
              => /\ \A delivered \in Deliveries(r.post) :
                        leader_dashboard_view_response(token, r.method,
                            r.post, delivered)
                            = [result |-> "redirect leader_self_assessment",
                               created_count |-> 0,
                               failed_emails |-> <<>>]
                 /\ leader_dashboard_view(token, r.method, r.post)
                        => UNCHANGED invitations]_vars

\* a survey whose self-assessment was stored but failed part-way, so that
\* the flag is still false and the dashboard still turns the leader away
C29_Witness ==
    \E token \in 1..Len(surveys) :
        /\ ~surveys[token].leader_completed_self
        /\ self_assessments_of(responses, token) # {}
        /\ invitations = <<>>

\* C30: a request to survey/<token>/submit/ whose token is the token of a
\* valid invitation is handled by participant_survey_view, and one whose
\* token is the leader token of a survey by leader_self_assessment_view.
C30_SubmitDispatch ==
    \A url \in UrlTokens, method \in Methods :
        /\ (/\ InvitationExists(url.invitation_token)
            /\ is_valid(invitations[url.invitation_token]))
               => submit_survey_view_response(url, method)
                      = [view |-> "participant_survey_view",
                         result |-> participant_survey_view_response(
                                        url.invitation_token, method)]
        /\ SurveyExists(url.leader_token)
               => submit_survey_view_response(url, method)
                      = [view |-> "leader_self_assessment_view",
                         result |-> leader_self_assessment_view_response(
                                        url.leader_token, method)]

====
